---------------------------- MODULE Spec2Model ----------------------------
(***************************************************************************)
(* Model of the content parser of pgessaysepub (src/pg_epub/parser.py).    *)
(*                                                                         *)
(* Text is modelled by TLA+ strings; Len, SubSeq and \o act on them as     *)
(* Python's len, slicing and + do.  Image bytes are modelled by what the   *)
(* parser can observe of them: whether they are empty, whether they        *)
(* decode, and the decoded width and height.                               *)
(***************************************************************************)
EXTENDS Integers, Sequences, FiniteSets, TLC

(***************************************************************************)
(* String helpers: Python's str methods used by the parser.                *)
(***************************************************************************)
UpperLetters == "ABCDEFGHIJKLMNOPQRSTUVWXYZ"

LowerLetters == "abcdefghijklmnopqrstuvwxyz"

\* the i-th character of s, as a string of length 1
CharAt(s, i) == SubSeq(s, i, i)

\* str.lower() of one ASCII character
UpperToLower ==
    [c \in {CharAt(UpperLetters, i) : i \in 1..26} |->
        CharAt(LowerLetters, CHOOSE j \in 1..26 : CharAt(UpperLetters, j) = c)]

LowerChar(c) == IF c \in DOMAIN UpperToLower THEN UpperToLower[c] ELSE c

\* str.lower() of the characters lo..hi of s, halving the range
RECURSIVE LowerRange(_, _, _)
LowerRange(s, lo, hi) ==
    IF lo > hi THEN ""
    ELSE IF lo = hi THEN LowerChar(CharAt(s, lo))
    ELSE LET mid == (lo + hi) \div 2
         IN  LowerRange(s, lo, mid) \o LowerRange(s, mid + 1, hi)

\* str.lower()
Lower(s) == LowerRange(s, 1, Len(s))

\* pat in s
Contains(s, pat) ==
    \E i \in 1..(Len(s) - Len(pat) + 1) : SubSeq(s, i, i + Len(pat) - 1) = pat

\* s.startswith(pat)
StartsWith(s, pat) == Len(pat) <= Len(s) /\ SubSeq(s, 1, Len(pat)) = pat

\* s.endswith(pat)
EndsWith(s, pat) ==
    Len(pat) <= Len(s) /\ SubSeq(s, Len(s) - Len(pat) + 1, Len(s)) = pat

\* c.isspace() for the white space of the model's texts
IsSpace(c) == c \in {" ", "\n", "\t", "\r"}

\* c.isupper() and c.isalpha() of one ASCII character
IsUpperChar(c) == c \in DOMAIN UpperToLower

IsAlphaChar(c) == c \in DOMAIN UpperToLower \/ c \in {UpperToLower[u] : u \in DOMAIN UpperToLower}

IsDigitChar(c) == c \in {"0", "1", "2", "3", "4", "5", "6", "7", "8", "9"}

\* the index of the first character at or after i that is not white space
RECURSIVE SkipSpaces(_, _)
SkipSpaces(s, i) ==
    IF i <= Len(s) /\ IsSpace(CharAt(s, i)) THEN SkipSpaces(s, i + 1) ELSE i

\* the index of the last character at or before i that is not white space
RECURSIVE SkipSpacesBack(_, _)
SkipSpacesBack(s, i) ==
    IF i >= 1 /\ IsSpace(CharAt(s, i)) THEN SkipSpacesBack(s, i - 1) ELSE i

\* s.strip()
Strip(s) ==
    LET first == SkipSpaces(s, 1)
        last == SkipSpacesBack(s, Len(s))
    IN  IF first > last THEN "" ELSE SubSeq(s, first, last)

\* the index of the last character of the white-space run that starts at i
RECURSIVE SpaceRunEnd(_, _)
SpaceRunEnd(s, i) ==
    IF i < Len(s) /\ IsSpace(CharAt(s, i + 1)) THEN SpaceRunEnd(s, i + 1) ELSE i

\* s.count(c) for a character c
Count(s, c) == Cardinality({i \in 1..Len(s) : CharAt(s, i) = c})

\* s.split(): the maximal runs of characters that are not white space
RECURSIVE WordsFrom(_, _, _)
WordsFrom(s, i, cur) ==
    IF i > Len(s) THEN (IF cur = "" THEN << >> ELSE <<cur>>)
    ELSE IF IsSpace(CharAt(s, i))
         THEN (IF cur = "" THEN << >> ELSE <<cur>>) \o WordsFrom(s, i + 1, "")
         ELSE WordsFrom(s, i + 1, cur \o CharAt(s, i))

Words(s) == WordsFrom(s, 1, "")

(***************************************************************************)
(* Image bytes and what scraper.fetch_binary can return.                   *)
(***************************************************************************)
\* fetch_binary returned None: the request failed
NoData == [kind |-> "none", w |-> 0, h |-> 0]

\* fetch_binary returned b"": a successful request with an empty body
EmptyBytes == [kind |-> "empty", w |-> 0, h |-> 0]

\* bytes that PIL cannot open or verify
JunkBytes == [kind |-> "junk", w |-> 0, h |-> 0]

\* bytes of a well-formed image of w x h pixels
ImageBytes(w, h) == [kind |-> "img", w |-> w, h |-> h]

\* the pixel sizes the multi-call specification draws image dimensions from
Dims == {20, 50, 150}

\* every outcome of one fetch_binary invocation, with sizes from Dims
FetchOutcomes ==
    {NoData, EmptyBytes, JunkBytes} \cup {ImageBytes(w, h) : w \in Dims, h \in Dims}

\* the largest width and height of the single-call specification
MaxDim == 160

\* every well-formed image of up to MaxDim x MaxDim pixels
AllImages == {ImageBytes(w, h) : w \in 1..MaxDim, h \in 1..MaxDim}

\* no file of that name in the image cache directory
NoFile == [kind |-> "nofile", w |-> 0, h |-> 0]

\* Python's None as the return value of download_image
None == << >>

(***************************************************************************)
(* URLs of the model and hashlib.md5(url).hexdigest() on them.             *)
(***************************************************************************)
UrlPhoto == "http://paulgraham.com/photo.png"

UrlChart == "http://paulgraham.com/chart.GIF"

UrlFig == "http://paulgraham.com/fig.webp"

UrlPic == "http://paulgraham.com/pic"

UrlSpacer == "http://paulgraham.com/spacer.gif"

UrlTrans == "http://paulgraham.com/Trans_1X1.GIF"

AbsUrls == {UrlPhoto, UrlChart, UrlFig, UrlPic, UrlSpacer, UrlTrans}

\* hashlib.md5(img_url.encode()).hexdigest(), tabulated on AbsUrls
md5_hexdigest(u) ==
    CASE u = UrlPhoto  -> "8aef93818cbc0b7ac2b9b22bada70521"
      [] u = UrlChart  -> "c2c31c75dbf18770b86a70ef262871db"
      [] u = UrlFig    -> "d73b9f578c2d2ee0b95c9fea3b100f8f"
      [] u = UrlPic    -> "0cca3cefd1a41b63159959c181efeb6e"
      [] u = UrlSpacer -> "f951f7d23a3b454ac57eab1aad07c1b9"
      [] u = UrlTrans  -> "ef3418b8a373168d215a0a95e11bd23e"

(***************************************************************************)
(* ContentParser.download_image                                            *)
(***************************************************************************)
skip_patterns ==
    {"spacer.gif", "pixel.gif", "1x1.", "blank.gif", "trans_1x1.gif",
     "essays-hierarchical.gif", "rss-hierarchical.gif", "dot.gif",
     "bullet.gif", "clear.gif"}

\* IsSkipped without the lower(): a case-sensitive denylist
IsSkippedCaseSensitive(img_url) ==
    \E pattern \in skip_patterns : Contains(img_url, pattern)

\* any(pattern in img_url.lower() for pattern in skip_patterns)
IsSkipped(img_url) ==
    LET url_lower == Lower(img_url)
    IN  \E pattern \in skip_patterns : Contains(url_lower, pattern)

MinImageSide == 50

ButtonLongSide == 150

ButtonShortSide == 30

\* TooSmall with the height test left out
TooSmallWidthOnly(width, height) == width < MinImageSide

\* the two dimension tests of download_image
TooSmall(width, height) == width < MinImageSide \/ height < MinImageSide

\* a button test that takes every image under 150 by 60 for a button
LooksLikeButtonWide(width, height) == width < ButtonLongSide /\ height < MinImageSide + 10

LooksLikeButton(width, height) ==
    \/ (width < ButtonLongSide /\ height < ButtonShortSide)
    \/ (height < ButtonLongSide /\ width < ButtonShortSide)

\* the try block: Image.open, img.size, img.verify and the size tests;
\* TRUE when the bytes are kept
ImageAccepted(img_data) ==
    /\ img_data.kind = "img"
    /\ ~TooSmall(img_data.w, img_data.h)
    /\ ~LooksLikeButton(img_data.w, img_data.h)

\* ImageExtension without the lower(): a case-sensitive suffix test
ImageExtensionCaseSensitive(img_url) ==
    IF EndsWith(img_url, ".png") THEN ".png"
    ELSE IF EndsWith(img_url, ".gif") THEN ".gif"
    ELSE IF EndsWith(img_url, ".webp") THEN ".webp"
    ELSE ".jpg"

\* the extension chosen from the URL's suffix
ImageExtension(img_url) ==
    LET url_lower == Lower(img_url)
    IN  IF EndsWith(url_lower, ".png") THEN ".png"
        ELSE IF EndsWith(url_lower, ".gif") THEN ".gif"
        ELSE IF EndsWith(url_lower, ".webp") THEN ".webp"
        ELSE ".jpg"

\* filename = f"{url_hash}{extension}"
ImageFilename(img_url) == md5_hexdigest(img_url) \o ImageExtension(img_url)

\* IsSkipped and ImageFilename on the URLs of the model, evaluated once
SkippedUrls == {u \in AbsUrls : IsSkipped(u)}

FilenameOf == [u \in AbsUrls |-> ImageFilename(u)]

Filenames == {FilenameOf[u] : u \in AbsUrls}

\* MemoHit with the lookup left out: every call goes to the network
MemoNeverHit(memo, disk, img_url) == FALSE

\* MemoHit that also accepts a file left on disk by a previous run
MemoHitOnAnyFile(memo, disk, img_url) ==
    \/ img_url \in DOMAIN memo /\ disk[memo[img_url]] # NoFile
    \/ img_url \notin DOMAIN memo /\ disk[FilenameOf[img_url]] # NoFile

\* the memo lookup: img_url in self.downloaded_images and cached_path.exists()
MemoHit(memo, disk, img_url) ==
    /\ img_url \in DOMAIN memo
    /\ disk[memo[img_url]] # NoFile

\* MemoPut with the assignment left out
MemoPutDropped(memo, img_url, filename) == memo

\* self.downloaded_images[img_url] = cache_path
MemoPut(memo, img_url, filename) ==
    [u \in DOMAIN memo \cup {img_url} |-> IF u = img_url THEN filename ELSE memo[u]]

\* download_image that writes the cache file and the memo before it looks
\* at the bytes
download_image_cache_first(P, img_url, net) ==
    LET same == [ret |-> None, memo |-> P.memo, disk |-> P.disk,
                 calls |-> P.calls, fetched |-> FALSE]
        counted == [P.calls EXCEPT ![img_url] = @ + 1]
        filename == FilenameOf[img_url]
        written == [same EXCEPT !.memo = MemoPut(P.memo, img_url, filename),
                                !.disk = [P.disk EXCEPT ![filename] = net],
                                !.calls = counted, !.fetched = TRUE]
    IN  IF ~P.scraper \/ img_url \in SkippedUrls THEN same
        ELSE IF MemoHit(P.memo, P.disk, img_url)
             THEN [same EXCEPT !.ret = <<P.memo[img_url], P.disk[P.memo[img_url]]>>]
        ELSE IF net.kind \in {"none", "empty"}
             THEN [same EXCEPT !.calls = counted, !.fetched = TRUE]
        ELSE IF ~ImageAccepted(net) THEN written
        ELSE [written EXCEPT !.ret = <<filename, net>>]

\* One call of download_image on a parser whose state is P = [scraper, memo,
\* disk, calls], where net is what fetch_binary returns if it is invoked.
\* The result is [ret, memo, disk, calls, fetched].
download_image(P, img_url, net) ==
    LET same == [ret |-> None, memo |-> P.memo, disk |-> P.disk,
                 calls |-> P.calls, fetched |-> FALSE]
        counted == [P.calls EXCEPT ![img_url] = @ + 1]
        filename == FilenameOf[img_url]
    IN  IF ~P.scraper THEN same
        ELSE IF img_url \in SkippedUrls THEN same
        ELSE IF MemoHit(P.memo, P.disk, img_url)
             THEN [same EXCEPT !.ret = <<P.memo[img_url], P.disk[P.memo[img_url]]>>]
        ELSE IF net.kind \in {"none", "empty"}
             THEN [same EXCEPT !.calls = counted, !.fetched = TRUE]
        ELSE IF ~ImageAccepted(net)
             THEN [same EXCEPT !.calls = counted, !.fetched = TRUE]
        ELSE [ret |-> <<filename, net>>,
              memo |-> MemoPut(P.memo, img_url, filename),
              disk |-> [P.disk EXCEPT ![filename] = net],
              calls |-> counted,
              fetched |-> TRUE]

(***************************************************************************)
(* ContentParser.escape_html and ContentParser.convert_plaintext_to_html   *)
(***************************************************************************)
\* s.replace(old, new) for a one-character old, on the characters lo..hi
RECURSIVE Replace(_, _, _, _, _)
Replace(s, old, new, lo, hi) ==
    IF lo > hi THEN ""
    ELSE IF lo = hi THEN (IF CharAt(s, lo) = old THEN new ELSE CharAt(s, lo))
    ELSE LET mid == (lo + hi) \div 2
         IN  Replace(s, old, new, lo, mid) \o Replace(s, old, new, mid + 1, hi)

\* escape_html with the replacement of & made last instead of first
escape_html_amp_last(text) ==
    LET s1 == Replace(text, "<", "&lt;", 1, Len(text))
        s2 == Replace(s1, ">", "&gt;", 1, Len(s1))
        s3 == Replace(s2, "\"", "&quot;", 1, Len(s2))
        s4 == Replace(s3, "'", "&#39;", 1, Len(s3))
    IN  Replace(s4, "&", "&amp;", 1, Len(s4))

\* the five replacements of escape_html, in the code's order
escape_html(text) ==
    LET s1 == Replace(text, "&", "&amp;", 1, Len(text))
        s2 == Replace(s1, "<", "&lt;", 1, Len(s1))
        s3 == Replace(s2, ">", "&gt;", 1, Len(s2))
        s4 == Replace(s3, "\"", "&quot;", 1, Len(s3))
    IN  Replace(s4, "'", "&#39;", 1, Len(s4))

\* the characters the entities of escape_html stand for
Entities ==
    <<[name |-> "&amp;", char |-> "&"], [name |-> "&lt;", char |-> "<"],
      [name |-> "&gt;", char |-> ">"], [name |-> "&quot;", char |-> "\""],
      [name |-> "&#39;", char |-> "'"]>>

\* the entity that starts at s[i], as an index of Entities, or 0
EntityAt(s, i) ==
    LET hits == {n \in 1..Len(Entities) :
                    /\ i >= 1
                    /\ i + Len(Entities[n].name) - 1 <= Len(s)
                    /\ SubSeq(s, i, i + Len(Entities[n].name) - 1) = Entities[n].name}
    IN  IF hits = {} THEN 0 ELSE CHOOSE n \in hits : TRUE

\* The text an HTML parser reads from the character data lo..hi of s: an
\* entity gives its character, and the rest of its name gives nothing.
RECURSIVE Unescape(_, _, _)
Unescape(s, lo, hi) ==
    IF lo > hi THEN ""
    ELSE IF lo = hi
         THEN IF EntityAt(s, lo) # 0 THEN Entities[EntityAt(s, lo)].char
              ELSE IF \E back \in 1..5 :
                          /\ EntityAt(s, lo - back) # 0
                          /\ back < Len(Entities[EntityAt(s, lo - back)].name)
                   THEN ""
                   ELSE CharAt(s, lo)
    ELSE LET mid == (lo + hi) \div 2
         IN  Unescape(s, lo, mid) \o Unescape(s, mid + 1, hi)

\* text.split('\n'), from index start on
RECURSIVE SplitLines(_, _)
SplitLines(text, start) ==
    LET nls == {i \in start..Len(text) : CharAt(text, i) = "\n"}
    IN  IF nls = {} THEN <<SubSeq(text, start, Len(text))>>
        ELSE LET i == CHOOSE k \in nls : \A m \in nls : k <= m
             IN  <<SubSeq(text, start, i - 1)>> \o SplitLines(text, i + 1)

\* ' '.join(current_para)
RECURSIVE JoinWith(_, _, _)
JoinWith(parts, sep, k) ==
    IF k > Len(parts) THEN ""
    ELSE IF k = Len(parts) THEN parts[k]
    ELSE parts[k] \o sep \o JoinWith(parts, sep, k + 1)

\* line.startswith('  ') and (';' in line or '(' in line or 'def' in line.lower())
IsCodeLine(line) ==
    /\ StartsWith(line, "  ")
    /\ (Contains(line, ";") \/ Contains(line, "(") \/ Contains(Lower(line), "def"))

\* a flush that writes a paragraph for an empty current_para too
FlushParagraphAlways(current_para) ==
    <<"<p>" \o JoinWith(current_para, " ", 1) \o "</p>">>

\* html_parts.append('<p>' + ' '.join(current_para) + '</p>') when current_para
FlushParagraph(current_para) ==
    IF current_para # << >> THEN <<"<p>" \o JoinWith(current_para, " ", 1) \o "</p>">> ELSE << >>

\* The loop over the lines from index k on and the flush after it: the
\* strings appended to html_parts.
RECURSIVE PlainTextParts(_, _, _, _)
PlainTextParts(lines, k, current_para, in_code_block) ==
    IF k > Len(lines)
    THEN (IF in_code_block THEN <<"</code></pre>">> ELSE << >>)
             \o FlushParagraph(current_para) \o <<"</div>">>
    ELSE LET line == lines[k]
             stripped == Strip(line)
         IN  IF IsCodeLine(line)
             THEN (IF ~in_code_block
                   THEN FlushParagraph(current_para) \o <<"<pre><code>">>
                   ELSE << >>)
                      \o <<escape_html(line), "\n">>
                      \o PlainTextParts(lines, k + 1,
                                        IF in_code_block THEN current_para ELSE << >>, TRUE)
             ELSE (IF in_code_block THEN <<"</code></pre>">> ELSE << >>)
                      \o (IF stripped = ""
                          THEN FlushParagraph(current_para)
                                   \o PlainTextParts(lines, k + 1, << >>, FALSE)
                          ELSE PlainTextParts(lines, k + 1,
                                              Append(current_para, escape_html(stripped)), FALSE))

\* a container that opens without its class
ContainerOpenUnclassed == "<div>"

ContainerOpen == "<div class=\"essay-content\">"

\* html_parts, of which convert_plaintext_to_html returns '\n'.join(html_parts)
PlainTextHtmlParts(text) ==
    <<ContainerOpen>> \o PlainTextParts(SplitLines(text, 1), 1, << >>, FALSE)

convert_plaintext_to_html(text) == JoinWith(PlainTextHtmlParts(text), "\n", 1)

(***************************************************************************)
(* ContentParser.text_to_paragraphs                                        *)
(***************************************************************************)
\* re.sub(r'\r\n', '\n', text) on the characters lo..hi: a carriage return
\* before a newline is dropped
RECURSIVE NormalizeNewlines(_, _, _)
NormalizeNewlines(text, lo, hi) ==
    IF lo > hi THEN ""
    ELSE IF lo = hi
         THEN (IF lo < Len(text) /\ SubSeq(text, lo, lo + 1) = "\r\n" THEN "" ELSE CharAt(text, lo))
    ELSE LET mid == (lo + hi) \div 2
         IN  NormalizeNewlines(text, lo, mid) \o NormalizeNewlines(text, mid + 1, hi)

\* the first indices of the matches of \n\s*\n: the white-space runs that
\* hold two newlines or more.  The pieces are stripped afterwards, so the
\* white space the match leaves on either side of it is cut with the run.
SeparatorStarts(text) ==
    {i \in 1..Len(text) :
        /\ IsSpace(CharAt(text, i))
        /\ (i = 1 \/ ~IsSpace(CharAt(text, i - 1)))
        /\ Cardinality({k \in i..SpaceRunEnd(text, i) : CharAt(text, k) = "\n"}) >= 2}

\* re.split(r'\n\s*\n', text), from index start on
RECURSIVE SplitBlankLines(_, _, _)
SplitBlankLines(text, seps, start) ==
    LET later == {i \in seps : i >= start}
    IN  IF later = {} THEN <<SubSeq(text, start, Len(text))>>
        ELSE LET i == CHOOSE k \in later : \A m \in later : k <= m
             IN  <<SubSeq(text, start, i - 1)>>
                     \o SplitBlankLines(text, seps, SpaceRunEnd(text, i) + 1)

\* re.sub(r'[ \t]+', ' ', p) on the characters lo..hi: of a run of blanks
\* the last one is kept, as a space
RECURSIVE CollapseBlanks(_, _, _)
CollapseBlanks(p, lo, hi) ==
    IF lo > hi THEN ""
    ELSE IF lo = hi
         THEN IF CharAt(p, lo) \in {" ", "\t"}
              THEN (IF lo < Len(p) /\ CharAt(p, lo + 1) \in {" ", "\t"} THEN "" ELSE " ")
              ELSE CharAt(p, lo)
    ELSE LET mid == (lo + hi) \div 2
         IN  CollapseBlanks(p, lo, mid) \o CollapseBlanks(p, mid + 1, hi)

\* paragraphs of at most this many characters are skipped
MinParagraphLen == 10

\* for p in paragraphs: strip, collapse blanks, keep when len(p) > 10
RECURSIVE CleanParagraphs(_, _)
CleanParagraphs(pieces, k) ==
    IF k > Len(pieces) THEN << >>
    ELSE LET stripped == Strip(pieces[k])
             p == CollapseBlanks(stripped, 1, Len(stripped))
         IN  (IF p # "" /\ Len(p) > MinParagraphLen THEN <<p>> ELSE << >>)
                 \o CleanParagraphs(pieces, k + 1)

\* text_to_paragraphs without the split: the text is one candidate
text_to_paragraphs_unsplit(text) == CleanParagraphs(<<text>>, 1)

text_to_paragraphs(text) ==
    LET normal == NormalizeNewlines(text, 1, Len(text))
    IN  CleanParagraphs(SplitBlankLines(normal, SeparatorStarts(normal), 1), 1)

(***************************************************************************)
(* The paragraph filter of ContentParser.extract_main_content              *)
(***************************************************************************)
\* nav_words without the advertisement line
nav_words_short ==
    {"home", "essays", "faq", "raq", "subscribe", "twitter", "x.com", "rss", "mastodon",
     "books", "arc", "bel", "lisp"}

nav_words ==
    {"want to start a startup? get funded by y combinator", "home", "essays",
     "faq", "raq", "subscribe", "twitter", "x.com", "rss", "mastodon", "books",
     "arc", "bel", "lisp"}

yc_ad_phrases ==
    {"get funded by", "y combinator", "want to start a startup",
     "get funded by y combinator"}

related_markers == {"related:", "related links:", "see also:"}

MonthNames ==
    {"january", "february", "march", "april", "may", "june", "july", "august",
     "september", "october", "november", "december"}

\* the index after a month name that starts at s[i], or 0
MonthEnd(s, i) ==
    LET AtI(m) == i + Len(m) - 1 <= Len(s) /\ Lower(SubSeq(s, i, i + Len(m) - 1)) = m
    IN  IF \E m \in MonthNames : AtI(m)
        THEN i + Len(CHOOSE m \in MonthNames : AtI(m))
        ELSE 0

\* the index after (Month)\s+\d{4} matched at s[i], or 0
MonthYearEnd(s, i) ==
    LET e == MonthEnd(s, i)
        d == SkipSpaces(s, e)
    IN  IF e # 0 /\ d > e /\ d + 3 <= Len(s)
           /\ \A k \in d..(d + 3) : IsDigitChar(CharAt(s, k))
        THEN d + 4
        ELSE 0

\* the first date pattern: Month Year, optionally ", rev. Month Year"
MatchesMonthYear(s) ==
    LET e == MonthYearEnd(s, 1)
    IN  /\ e # 0
        /\ \/ e = Len(s) + 1
           \/ /\ e <= Len(s)
              /\ CharAt(s, e) = ","
              /\ LET r == SkipSpaces(s, e + 1)
                 IN  /\ r + 3 <= Len(s)
                     /\ Lower(SubSeq(s, r, r + 3)) = "rev."
                     /\ MonthYearEnd(s, SkipSpaces(s, r + 4)) = Len(s) + 1

\* the second date pattern: ^\d{4}$
MatchesYear(s) == Len(s) = 4 /\ \A k \in 1..4 : IsDigitChar(CharAt(s, k))

\* is_date: some pattern of date_patterns matches para_stripped
IsDateLine(para) == LET t == Strip(para) IN MatchesMonthYear(t) \/ MatchesYear(t)

NavMaxLen == 100

AdMaxLen == 50

LinkTitleMaxLen == 60

LinkTitleMaxSpaces == 8

\* any(marker in para_lower for marker in related_markers)
IsRelatedMarker(para) ==
    LET para_lower == Strip(Lower(para))
    IN  \E marker \in related_markers : Contains(para_lower, marker)

\* the skip tests with a navigation test that takes paragraphs of any length
IsExcludedAnyLength(para, title) ==
    LET para_lower == Strip(Lower(para))
    IN  \/ para_lower = (IF title # "" THEN Strip(Lower(title)) ELSE "")
        \/ \E nav \in nav_words : Contains(para_lower, nav)
        \/ (\E phrase \in yc_ad_phrases : Contains(para_lower, phrase)) /\ Len(para) < AdMaxLen
        \/ IsDateLine(para)

\* the skip tests of the loop other than the related section, in the code's
\* order: title, navigation, YC ad, lone punctuation, link title, date
IsExcluded(para, title) ==
    LET para_lower == Strip(Lower(para))
        para_stripped == Strip(para)
        title_lower == IF title # "" THEN Strip(Lower(title)) ELSE ""
    IN  \/ para_lower = title_lower
        \/ (\E nav \in nav_words : Contains(para_lower, nav)) /\ Len(para) < NavMaxLen
        \/ (\E phrase \in yc_ad_phrases : Contains(para_lower, phrase)) /\ Len(para) < AdMaxLen
        \/ para_stripped = "." \/ para_stripped = ","
        \/ /\ Len(para) < LinkTitleMaxLen
           /\ Contains(para, ":")
           /\ Count(para, " ") < LinkTitleMaxSpaces
           /\ (Contains(para_lower, " re: ") \/ Contains(para_lower, "translation"))
        \/ IsDateLine(para)

\* in_related_section with the flag cleared by the next paragraph
RelatedCleared(related) == FALSE

\* in_related_section after a paragraph that is not a marker: lines 409-410
\* skip the paragraph and leave the flag as it is
RelatedKept(related) == related

\* The loop over the paragraphs from index k on; related is
\* in_related_section.  The result is the indices of the paragraphs that
\* get a <p> element, in order.
RECURSIVE FilterFrom(_, _, _, _)
FilterFrom(paragraphs, title, k, related) ==
    IF k > Len(paragraphs) THEN << >>
    ELSE IF IsRelatedMarker(paragraphs[k]) THEN FilterFrom(paragraphs, title, k + 1, TRUE)
    ELSE IF related THEN FilterFrom(paragraphs, title, k + 1, RelatedKept(related))
    ELSE IF IsExcluded(paragraphs[k], title) THEN FilterFrom(paragraphs, title, k + 1, related)
    ELSE <<k>> \o FilterFrom(paragraphs, title, k + 1, related)

RealParagraphLen == 60

RealSentenceLen == 30

TitleMaxWords == 6

TitleMaxLen == 50

FragmentMaxLen == 40

\* the post-pass stops at long paragraphs only
IsRealParagraphLongOnly(text) == Len(text) > RealParagraphLen

\* the post-pass stops at this paragraph
IsRealParagraph(text) ==
    Len(text) > RealParagraphLen \/ (EndsWith(text, ".") /\ Len(text) > RealSentenceLen)

\* the post-pass removes this paragraph
IsTrailingTitle(text) ==
    LET words == Words(text)
    IN  \/ /\ Len(words) < TitleMaxWords
           /\ Len(text) < TitleMaxLen
           /\ \A n \in 1..Len(words) :
                  Len(words[n]) > 1 =>
                      (IsUpperChar(CharAt(words[n], 1)) \/ ~IsAlphaChar(CharAt(words[n], 1)))
        \/ (Len(text) < FragmentMaxLen /\ ~EndsWith(text, "."))

\* for p_tag in reversed(all_p_tags): kept is the indices of the <p> elements
RECURSIVE RemoveTrailing(_, _)
RemoveTrailing(paragraphs, kept) ==
    IF kept = << >> THEN kept
    ELSE LET text == Strip(paragraphs[kept[Len(kept)]])
         IN  IF IsRealParagraph(text) THEN kept
             ELSE IF IsTrailingTitle(text)
                  THEN RemoveTrailing(paragraphs, SubSeq(kept, 1, Len(kept) - 1))
                  ELSE kept

\* the indices of the paragraphs that are in the container at the end
SurvivingIndices(paragraphs, title) ==
    RemoveTrailing(paragraphs, FilterFrom(paragraphs, title, 1, FALSE))

(***************************************************************************)
(* Documents: the tree BeautifulSoup(html, 'lxml') builds.  A node is an   *)
(* element or a string; an element of the model holds either child nodes   *)
(* (kids) or a single string (s).                                          *)
(***************************************************************************)
Node(tag, s, kids) ==
    [tag |-> tag, s |-> s, src |-> "", alt |-> "", n |-> 0, wrap |-> "", kids |-> kids]

\* a NavigableString
Text(s) == Node("text", s, << >>)

\* n <br> tags in a row
Br(n) == [Node("br", "", << >>) EXCEPT !.n = n]

\* <img src=... alt=...>; an absent attribute is ""
Img(src, alt) == [Node("img", "", << >>) EXCEPT !.src = src, !.alt = alt]

\* <a href=...>s</a>
A(s) == Node("a", s, << >>)

\* <b>s</b>
B(s) == Node("b", s, << >>)

\* <table><tr><td>kids</td></tr></table>, or with a <font> around the kids:
\* wrap is the name of the element that is the parent of the kids
Table(wrap, kids) == [Node("table", "", kids) EXCEPT !.wrap = wrap]

\* <p>s</p>
Para(s) == Node("p", s, << >>)

\* <pre><code>s</code></pre>
Pre(s) == Node("pre", s, << >>)

\* <div class="essay-content">kids</div>
Div(kids) == Node("div", "", kids)

\* an element the clean-up of build_chapter_html names: html, body, head,
\* table, tr, td
Wrapper(tag, kids) == Node(tag, "", kids)

\* the strings of the nodes from index k on, in document order
RECURSIVE AllStrings(_, _)
AllStrings(nodes, k) ==
    IF k > Len(nodes) THEN << >>
    ELSE (IF nodes[k].s # "" THEN <<nodes[k].s>> ELSE << >>)
             \o AllStrings(nodes[k].kids, 1)
             \o AllStrings(nodes, k + 1)

\* the strings from index k on, each stripped, joined by ""
RECURSIVE JoinStripped(_, _)
JoinStripped(strings, k) ==
    IF k > Len(strings) THEN ""
    ELSE Strip(strings[k]) \o JoinStripped(strings, k + 1)

\* get_text(strip=True) of the nodes
StrippedText(nodes) == JoinStripped(AllStrings(nodes, 1), 1)

\* get_text(separator='\n') of the nodes
SeparatedText(nodes) == JoinWith(AllStrings(nodes, 1), "\n", 1)

\* the indices of seq, in order, that are in the set S
IndicesIn(seq, S) ==
    LET InS(i) == i \in S
    IN  SelectSeq([i \in 1..Len(seq) |-> i], InS)

\* the subsequence of seq at the indices in S
Pick(seq, S) ==
    LET idx == IndicesIn(seq, S)
    IN  [m \in 1..Len(idx) |-> seq[idx[m]]]

(***************************************************************************)
(* ContentParser.remove_navigation                                         *)
(***************************************************************************)
nav_keywords ==
    {"home", "essays", "h&p", "books", "yc", "arc", "bel", "lisp", "spam",
     "responses", "faqs", "raqs", "quotes", "rss", "bio", "twitter",
     "mastodon", "x.com"}

NavTableMaxLen == 500

NavKeywordMin == 3

NavLinkMin == 5

\* find_all('a') below the nodes from index k on, in document order
RECURSIVE AllLinks(_, _)
AllLinks(nodes, k) ==
    IF k > Len(nodes) THEN << >>
    ELSE (IF nodes[k].tag = "a" THEN <<nodes[k]>> ELSE << >>)
             \o AllLinks(nodes[k].kids, 1)
             \o AllLinks(nodes, k + 1)

\* the two tests without the limit on the length of the text
TableIsNavigationAnyLength(table) ==
    LET text == Lower(StrippedText(<<table>>))
        links == AllLinks(table.kids, 1)
    IN  \/ Cardinality({kw \in nav_keywords : Contains(text, kw)}) >= NavKeywordMin
        \/ /\ Len(links) >= NavLinkMin
           /\ Cardinality({j \in 1..Len(links) : Lower(Strip(links[j].s)) \in nav_keywords})
                  >= NavKeywordMin

\* the two tests of the loop over the tables
TableIsNavigation(table) ==
    LET text == Lower(StrippedText(<<table>>))
        nav_count == Cardinality({kw \in nav_keywords : Contains(text, kw)})
        links == AllLinks(table.kids, 1)
        nav_matches ==
            Cardinality({j \in 1..Len(links) : Lower(Strip(links[j].s)) \in nav_keywords})
    IN  \/ Len(text) < NavTableMaxLen /\ nav_count >= NavKeywordMin
        \/ Len(links) >= NavLinkMin /\ nav_matches >= NavKeywordMin

\* the test of the loop over the images
ImgIsNavigation(img) ==
    LET src == Lower(img.src)
        alt == Lower(img.alt)
    IN  \E kw \in nav_keywords : Contains(src, kw) \/ Contains(alt, kw)

\* the children that stay: no navigation table, no navigation image
RECURSIVE WithoutNavigation(_)
WithoutNavigation(nodes) ==
    LET stay == {i \in 1..Len(nodes) :
                    /\ ~(nodes[i].tag = "table" /\ TableIsNavigation(nodes[i]))
                    /\ ~(nodes[i].tag = "img" /\ ImgIsNavigation(nodes[i]))}
        kept == Pick(nodes, stay)
    IN  [m \in 1..Len(kept) |->
            IF kept[m].tag = "table"
            THEN [kept[m] EXCEPT !.kids = WithoutNavigation(kept[m].kids)]
            ELSE kept[m]]

\* the body after remove_navigation(soup)
remove_navigation(body) == WithoutNavigation(body)

(***************************************************************************)
(* extract_main_content: the main content area and the <br> conversion     *)
(***************************************************************************)
ContentTableMinLen == 500

\* the tables with more than 500 characters of text, as indices of the body
ContentCandidates(body) ==
    {i \in 1..Len(body) :
        body[i].tag = "table" /\ Len(StrippedText(<<body[i]>>)) > ContentTableMinLen}

\* the selection with the last of the longest candidates taken
MainContentLastOfTies(body) ==
    LET cands == ContentCandidates(body)
        Size(i) == Len(StrippedText(<<body[i]>>))
    IN  IF cands = {} THEN body
        ELSE <<body[CHOOSE i \in cands :
                       \A j \in cands : Size(j) < Size(i) \/ (Size(j) = Size(i) /\ i >= j)]>>

\* content_candidates.sort(reverse=True, key=...)[0]: the longest candidate,
\* the first of them in document order (the sort is stable); the whole body
\* when no table is a candidate.  The result is the children of the tree
\* that str(main_content) is parsed into.
MainContent(body) ==
    LET cands == ContentCandidates(body)
        Size(i) == Len(StrippedText(<<body[i]>>))
    IN  IF cands = {} THEN body
        ELSE <<body[CHOOSE i \in cands :
                       \A j \in cands : Size(j) < Size(i) \/ (Size(j) = Size(i) /\ i <= j)]>>

\* strings that follow one another become one string when the markup is
\* parsed again
RECURSIVE MergeStrings(_, _, _)
MergeStrings(nodes, k, done) ==
    IF k > Len(nodes) THEN done
    ELSE IF nodes[k].tag = "text" /\ done # << >> /\ done[Len(done)].tag = "text"
         THEN MergeStrings(nodes, k + 1,
                           [done EXCEPT ![Len(done)] = Text(done[Len(done)].s \o nodes[k].s)])
         ELSE MergeStrings(nodes, k + 1, Append(done, nodes[k]))

\* convert_br_to_paragraphs on str(main_content) and the second parse: two
\* or more <br> in a row become "\n\n", a single one "\n".  (The white space
\* the first pattern takes with a run of <br> borders the "\n\n" it leaves,
\* where text_to_paragraphs strips it.)
RECURSIVE convert_br_to_paragraphs(_)
convert_br_to_paragraphs(nodes) ==
    LET converted ==
            [i \in 1..Len(nodes) |->
                IF nodes[i].tag = "br"
                THEN Text(IF nodes[i].n >= 2 THEN "\n\n" ELSE "\n")
                ELSE IF nodes[i].tag = "table"
                     THEN [nodes[i] EXCEPT !.kids = convert_br_to_paragraphs(nodes[i].kids)]
                     ELSE nodes[i]]
    IN  MergeStrings(converted, 1, << >>)

(***************************************************************************)
(* ContentParser.process_images                                            *)
(***************************************************************************)
\* the URL of the page of an essay
base_url == "http://paulgraham.com/test.html"

\* urljoin(base_url, src) for a src that is a path: from the root of the
\* site when it starts with "/", else beside the page
urljoin(base, src) ==
    LET slashes == {i \in 1..Len(base) : CharAt(base, i) = "/"}
        last == CHOOSE i \in slashes : \A j \in slashes : j <= i
        root == CHOOSE i \in slashes : Cardinality({j \in slashes : j < i}) = 2
    IN  IF StartsWith(src, "/")
        THEN SubSeq(base, 1, root - 1) \o src
        ELSE SubSeq(base, 1, last) \o src

\* the <img> elements in document order, as paths: <<i>> is child i of the
\* tree, <<i, j>> is child j in table i
RECURSIVE ImgPaths(_, _)
ImgPaths(nodes, k) ==
    IF k > Len(nodes) THEN << >>
    ELSE LET idx == IndicesIn(nodes[k].kids,
                              {j \in 1..Len(nodes[k].kids) : nodes[k].kids[j].tag = "img"})
         IN  (IF nodes[k].tag = "img" THEN << <<k>> >> ELSE << >>)
                 \o [m \in 1..Len(idx) |-> <<k, idx[m]>>]
                 \o ImgPaths(nodes, k + 1)

NodeAt(nodes, path) ==
    IF Len(path) = 1 THEN nodes[path[1]] ELSE nodes[path[1]].kids[path[2]]

\* the src of a decomposed image
Decomposed == ""

\* the test at line 153 with the duplicates check left out
SeenNothing(seen_filenames, filename) == FALSE

\* filename in seen_filenames
AlreadySeen(seen_filenames, filename) == filename \in seen_filenames

\* The body of the loop for the image at path.  acc holds the parser (P),
\* images_data, seen_filenames, the number of fetch outcomes taken from
\* nets, the new src of each image so far, and the download_image calls;
\* the result is acc after the pass.
ProcessImage(nodes, path, nets, acc) ==
    LET src == NodeAt(nodes, path).src
        url == IF StartsWith(src, "http") THEN src ELSE urljoin(base_url, src)
        net == nets[acc.used + 1]
    IN  IF src = ""
        THEN [acc EXCEPT !.srcs = Append(@, Decomposed)]
        ELSE CHOOSE next \in
                 {[P |-> [acc.P EXCEPT !.memo = r.memo, !.disk = r.disk, !.calls = r.calls],
                   images_data |->
                       IF r.ret # None /\ ~AlreadySeen(acc.seen_filenames, r.ret[1])
                       THEN Append(acc.images_data, r.ret)
                       ELSE acc.images_data,
                   seen_filenames |->
                       IF r.ret # None THEN acc.seen_filenames \cup {r.ret[1]}
                       ELSE acc.seen_filenames,
                   used |-> IF r.fetched THEN acc.used + 1 ELSE acc.used,
                   srcs |-> Append(acc.srcs,
                                   IF r.ret # None THEN "images/" \o r.ret[1]
                                   ELSE Decomposed),
                   log |-> Append(acc.log,
                                  [url |-> url, net |-> IF r.fetched THEN net ELSE NoData,
                                   ret |-> r.ret, fetched |-> r.fetched])] :
                      r \in {download_image(acc.P, url, net)}} : TRUE

\* the loop over the images from index k of paths on
RECURSIVE ProcessImagesFrom(_, _, _, _, _)
ProcessImagesFrom(nodes, paths, nets, k, acc) ==
    IF k > Len(paths) THEN acc
    ELSE CHOOSE done \in
             {ProcessImagesFrom(nodes, paths, nets, k + 1, next) :
                  next \in {ProcessImage(nodes, paths[k], nets, acc)}} : TRUE

\* the tree after a loop that removes no image
WithSrcsNothingRemoved(nodes, paths, srcs) == nodes

\* the tree after the loop: an image has its new src or is gone
WithSrcs(nodes, paths, srcs) ==
    LET NewSrc(path) == srcs[CHOOSE m \in 1..Len(paths) : paths[m] = path]
        Stays(node, path) == node.tag = "img" => NewSrc(path) # Decomposed
        Fix(node, path) ==
            IF node.tag = "img" THEN [node EXCEPT !.src = NewSrc(path)] ELSE node
        KidsOf(i) ==
            LET idx == IndicesIn(nodes[i].kids,
                                 {j \in 1..Len(nodes[i].kids) : Stays(nodes[i].kids[j], <<i, j>>)})
            IN  [m \in 1..Len(idx) |-> Fix(nodes[i].kids[idx[m]], <<i, idx[m]>>)]
        top == IndicesIn(nodes, {i \in 1..Len(nodes) : Stays(nodes[i], <<i>>)})
    IN  [m \in 1..Len(top) |->
            IF nodes[top[m]].tag = "table"
            THEN [nodes[top[m]] EXCEPT !.kids = KidsOf(top[m])]
            ELSE Fix(nodes[top[m]], <<top[m]>>)]

\* process_images(soup, base_url) on parser P; nets is what fetch_binary
\* returns, call after call
process_images(P, nodes, nets) ==
    LET paths == ImgPaths(nodes, 1)
    IN  CHOOSE out \in
            {[P |-> done.P, images_data |-> done.images_data, log |-> done.log,
              soup |-> WithSrcs(nodes, paths, done.srcs)] :
                 done \in {ProcessImagesFrom(nodes, paths, nets, 1,
                               [P |-> P, images_data |-> << >>, seen_filenames |-> {},
                                used |-> 0, srcs |-> << >>, log |-> << >>])}} : TRUE

(***************************************************************************)
(* extract_main_content: the links, the bold markers, the paragraphs       *)
(***************************************************************************)
LinkMaxLen == 80

LinkSlack == 10

link_parents == {"li", "td", "font"}

\* the two tests on an <a> element: child k of an element named parent whose
\* children still in the tree are those at the indices alive
IsStandaloneLink(kids, parent, k, alive) ==
    LET link_text == Strip(kids[k].s)
        parent_text == StrippedText(Pick(kids, alive))
        before == {i \in alive : i < k}
        after == {i \in alive : i > k}
        LinkOrBlank(i) ==
            kids[i].tag = "a" \/ (kids[i].tag = "text" /\ Strip(kids[i].s) = "")
        prev_ok == before = {} \/ LinkOrBlank(CHOOSE i \in before : \A j \in before : j <= i)
        next_ok == after = {} \/ LinkOrBlank(CHOOSE i \in after : \A j \in after : i <= j)
    IN  /\ Len(link_text) < LinkMaxLen
        /\ \/ /\ parent \in link_parents
              /\ (parent_text = link_text \/ Len(parent_text) < Len(link_text) + LinkSlack)
           \/ (prev_ok /\ next_ok)

\* the loop over the <a> elements among the children of one element
RECURSIVE LinkPass(_, _, _, _)
LinkPass(kids, parent, k, alive) ==
    IF k > Len(kids) THEN alive
    ELSE IF kids[k].tag = "a" /\ IsStandaloneLink(kids, parent, k, alive)
         THEN LinkPass(kids, parent, k + 1, alive \ {k})
         ELSE LinkPass(kids, parent, k + 1, alive)

\* the tree after the loop over content_soup.find_all('a')
RECURSIVE RemoveLinks(_, _)
RemoveLinks(nodes, parent) ==
    LET kept == Pick(nodes, LinkPass(nodes, parent, 1, 1..Len(nodes)))
    IN  [m \in 1..Len(kept) |->
            IF kept[m].tag = "table"
            THEN [kept[m] EXCEPT !.kids = RemoveLinks(kept[m].kids, kept[m].wrap)]
            ELSE kept[m]]

BoldMinLen == 3

BoldMaxLen == 100

\* bold.insert_before('\n\n') and bold.insert_after('\n\n') for the bold
\* elements of more than 3 and less than 100 characters
RECURSIVE MarkBold(_, _)
MarkBold(nodes, k) ==
    IF k > Len(nodes) THEN << >>
    ELSE LET node == nodes[k]
             text == Strip(node.s)
         IN  (IF node.tag = "b" /\ Len(text) > BoldMinLen /\ Len(text) < BoldMaxLen
              THEN <<Text("\n\n"), node, Text("\n\n")>>
              ELSE IF node.tag = "table"
                   THEN <<[node EXCEPT !.kids = MarkBold(node.kids, 1)]>>
                   ELSE <<node>>)
                 \o MarkBold(nodes, k + 1)

\* Lines 325-476 on content_soup after process_images: the candidate
\* paragraphs and the indices of those that are in the container at the end
ParagraphsOf(soup, title) ==
    LET raw_text == SeparatedText(MarkBold(RemoveLinks(soup, "body"), 1))
        paragraphs == text_to_paragraphs(raw_text)
    IN  [paragraphs |-> paragraphs, emitted |-> FilterFrom(paragraphs, title, 1, FALSE),
         kept |-> SurvivingIndices(paragraphs, title)]

\* what str() writes for the characters & < > of a string
substitute_xml(s) ==
    LET s1 == Replace(s, "&", "&amp;", 1, Len(s))
        s2 == Replace(s1, "<", "&lt;", 1, Len(s1))
    IN  Replace(s2, ">", "&gt;", 1, Len(s2))

\* str(node) for the nodes from index k on
RECURSIVE Markup(_, _)
Markup(nodes, k) ==
    IF k > Len(nodes) THEN ""
    ELSE LET node == nodes[k]
             inner == substitute_xml(node.s) \o Markup(node.kids, 1)
         IN  (CASE node.tag = "text" -> inner
                [] node.tag = "br" -> IF node.n >= 2 THEN "<br/><br/>" ELSE "<br/>"
                [] node.tag = "img" ->
                       "<img alt=\"" \o node.alt \o "\" src=\"" \o node.src \o "\"/>"
                [] node.tag = "a" -> "<a href=\"index.html\">" \o inner \o "</a>"
                [] node.tag = "table" ->
                       IF node.wrap = "font"
                       THEN "<table><tr><td><font>" \o inner \o "</font></td></tr></table>"
                       ELSE "<table><tr><td>" \o inner \o "</td></tr></table>"
                [] node.tag = "div" -> ContainerOpen \o inner \o "</div>"
                [] node.tag = "pre" -> "<pre><code>" \o inner \o "</code></pre>"
                [] OTHER -> "<" \o node.tag \o ">" \o inner \o "</" \o node.tag \o ">")
                 \o Markup(nodes, k + 1)

(***************************************************************************)
(* ContentParser.extract_main_content                                      *)
(***************************************************************************)
\* The children of the container element in the markup that
\* convert_plaintext_to_html joins from html_parts[k..]: a part that opens
\* with <p> is a paragraph, the parts between <pre><code> and </code></pre>
\* are the text of a code block, and the "\n" that joins two parts is a
\* string between the elements.
RECURSIVE PartsNodes(_, _, _, _)
PartsNodes(parts, k, in_code_block, code) ==
    IF k > Len(parts) THEN << >>
    ELSE LET part == parts[k]
         IN  IF part = "</div>" THEN << >>
             ELSE IF in_code_block
                  THEN IF part = "</code></pre>"
                       THEN <<Pre(code), Text("\n")>> \o PartsNodes(parts, k + 1, FALSE, "")
                       ELSE PartsNodes(parts, k + 1, TRUE,
                                       code \o Unescape(part, 1, Len(part)) \o "\n")
                  ELSE IF part = "<pre><code>"
                       THEN PartsNodes(parts, k + 1, TRUE, "\n")
                       ELSE <<Para(Unescape(part, 4, Len(part) - 4)), Text("\n")>>
                                \o PartsNodes(parts, k + 1, FALSE, "")

\* html.strip().startswith('<') fails
\* the test of line 279 when no input counts as plain text
IsPlainTextNever(html) == FALSE

IsPlainText(html) == ~StartsWith(Strip(html), "<")

\* what extract_main_content returns when no call has been made
NoExtract ==
    [doc |-> "", title |-> "", plain |-> FALSE, markup |-> "", nodes |-> << >>,
     images |-> << >>, paragraphs |-> << >>, emitted |-> << >>, kept |-> << >>,
     soup |-> << >>, log |-> << >>]

\* Lines 279-280: the result for plain text.  nodes is the tree the returned
\* markup parses into.
PlainTextResult(html) ==
    [markup |-> convert_plaintext_to_html(html),
     nodes |-> <<Div(<<Text("\n")>> \o PartsNodes(PlainTextHtmlParts(html), 2, FALSE, ""))>>,
     paragraphs |-> << >>, emitted |-> << >>, kept |-> << >>]

\* Lines 282-317: content_soup, the tree of the main content area after the
\* <br> conversion
ContentSoup(body) == convert_br_to_paragraphs(MainContent(remove_navigation(body)))

\* Lines 322-479 on content_soup after process_images: the container with
\* one <p> for each paragraph that survives, and str(container)
ContainerResult(soup, title) ==
    LET text == ParagraphsOf(soup, title)
        container == Div([m \in 1..Len(text.kept) |-> Para(text.paragraphs[text.kept[m]])])
    IN  [markup |-> Markup(<<container>>, 1), nodes |-> <<container>>,
         paragraphs |-> text.paragraphs, emitted |-> text.emitted, kept |-> text.kept]

(***************************************************************************)
(* ContentParser.build_chapter_html                                        *)
(***************************************************************************)
wrapper_tags == {"html", "body", "table", "tr", "td"}

\* the six re.sub calls: the tags of the wrapper elements go and what they
\* hold stays; a head element goes with what it holds
RECURSIVE StripWrappers(_, _)
StripWrappers(nodes, k) ==
    IF k > Len(nodes) THEN << >>
    ELSE (IF nodes[k].tag = "head" THEN << >>
          ELSE IF nodes[k].tag \in wrapper_tags THEN StripWrappers(nodes[k].kids, 1)
          ELSE <<nodes[k]>>)
             \o StripWrappers(nodes, k + 1)

\* BeautifulSoup(content_html, 'lxml').body.children: text that opens the
\* markup is put into a <p>, text that follows an element stays a string
ParsedContent(content) ==
    LET flat == MergeStrings(StripWrappers(content, 1), 1, << >>)
    IN  IF flat # << >> /\ flat[1].tag = "text" /\ Strip(flat[1].s) # ""
        THEN <<Para(flat[1].s)>> \o Tail(flat)
        ELSE flat

ChapterMinLen == 100

\* build_chapter_html returns ""
Rejection == [rejected |-> TRUE, title |-> "", h1 |-> "", date |-> "", body |-> << >>]

\* if tag.name, in the join of clean_content
IsElement(node) == node.tag # "text"

\* build_chapter_html(title, content_html, date_str), where content_html
\* parses into the nodes content; the chapter is held by its parts: the
\* <title>, the <h1>, the date paragraph ("" when there is none), and the
\* elements of the body after them
build_chapter_html(title, content, date_str) ==
    LET parsed == ParsedContent(content)
        text_content == StrippedText(parsed)
        clean_content == Pick(parsed, {i \in 1..Len(parsed) : IsElement(parsed[i])})
    IN  IF text_content = "" \/ Len(text_content) < ChapterMinLen
        THEN Rejection
        ELSE [rejected |-> FALSE,
              title |-> escape_html(title),
              h1 |-> escape_html(title),
              date |-> IF date_str # "" THEN escape_html(date_str) ELSE "",
              body |-> IF clean_content # << >> THEN clean_content
                       ELSE <<Para("Content not available.")>>]

(***************************************************************************)
(* The documents, titles and cached contents of the model                  *)
(***************************************************************************)
ProseA ==
    "The way to get startup ideas is not to try to think of startup ideas but to look for problems, preferably problems you have yourself."

ProseB ==
    "It took me years to understand why this kind of idea works so well in the end, and longer still to explain the reason to anyone else."

ProseC ==
    "When you find the right sort of problem you should probably be able to describe it as obvious, at least to the people who have it."

ProseD ==
    "This paragraph comes after the marker and is long enough to count as prose, yet every paragraph after the marker has to be dropped."

ProseE ==
    "A second paragraph after the marker is dropped as well, because the flag that the marker sets is never cleared in the same essay."

YcLine == "Want to start a startup? Get funded by Y Combinator."

EssayTitle == "How to Do Great Work"

Titles == {"", EssayTitle}

DateLabels == {"", "January 2024"}

NavTable == Table("td", <<A("Home"), A("Essays"), A("H&P"), A("Books"), A("YC"), A("Arc")>>)

EssayTable ==
    Table("font",
          <<Text(EssayTitle), Br(2), Text("January 2024"), Br(2), Text(ProseA), Br(2),
            B("Why It Works"), Text(ProseB), Br(2),
            Text("See "), A("the earlier essay"),
            Text(" for the details of how this plays out in practice and at length."),
            Br(2), Text("Related: "), A("Some Other Essay"), Br(2),
            Text(ProseD), Br(2), Text(ProseE)>>)

\* two tables with visible text of one length, 527 characters, and a longer
\* one, 656 characters
TableAB ==
    Table("font", <<Text(ProseA), Br(2), Text(ProseB), Br(2), Text(ProseC), Br(2), Text(ProseD)>>)

TableBA ==
    Table("font", <<Text(ProseB), Br(2), Text(ProseA), Br(2), Text(ProseD), Br(2), Text(ProseC)>>)

TableLong ==
    Table("font", <<Text(ProseE), Br(2), Text(ProseD), Br(2), Text(ProseC), Br(2), Text(ProseB),
                    Br(2), Text(ProseA)>>)

\* a table whose visible text is 500 characters long: ProseA, ProseB, ProseC
\* and the first 104 characters of ProseD
TableAtLimit ==
    Table("font", <<Text(ProseA), Br(2), Text(ProseB), Br(2), Text(ProseC), Br(2),
                    Text(SubSeq(ProseD, 1, 104))>>)

\* a table with a paragraph for each test of the loop over the paragraphs,
\* and paragraphs that come close to a test and pass it
FiltersTable ==
    Table("font",
          <<Text("HOW TO DO GREAT WORK"), Br(2),
            Text("January 2024"), Br(2),
            Text("March 2009, rev. May 2011"), Br(2),
            Text(ProseA), Br(2),
            Text("Subscribe to the feed"), Br(2),
            Text("The two books that I would give to anyone who asks are on the shelf behind the desk, next to the window."),
            Br(2),
            Text("Get funded by the best."), Br(2),
            Text("Get funded by people who know what you are doing there."), Br(2),
            Text("Kevin Kelleher Re: Taste"), Br(2),
            Text("Note: one translation of it is due to a friend of us"), Br(2),
            Text(ProseB), Br(2),
            Text("January 2024 was cold."), Br(2),
            Text(ProseC), Br(2),
            Text(ProseD)>>)

\* four paragraphs of prose, each followed by a blank line
ProseRun ==
    <<Text(ProseA), Br(2), Text(ProseB), Br(2), Text(ProseC), Br(2), Text(ProseE), Br(2)>>

\* a document given as markup: html is the markup of the tree body
Html(body) ==
    [html |-> "<html><body>" \o Markup(body, 1) \o "</body></html>", body |-> body]

\* a document given as plain text
Plain(text) == [html |-> text, body |-> << >>]

DocIds ==
    {"essay", "footer", "images", "charts", "links", "yc_table", "yc_plain",
     "plain_code", "plain_long", "empty", "bare", "tie", "tie_rev", "longer_last",
     "at_limit", "plain_markup", "filters", "trailing", "trailing_stop"}

Docs ==
    [d \in DocIds |->
        CASE d = "essay" -> Html(<<NavTable, EssayTable>>)
          [] d = "footer" ->
                 Html(<<Text(ProseA), Br(2), Text(ProseC), Br(2),
                        A("Some Other Essay"), Br(1), A("The Other Road Ahead")>>)
          [] d = "images" ->
                 Html(<<Table("font",
                              <<Img("photo.png", "A photo"), Text(ProseA), Br(2),
                                Img(UrlPhoto, ""), Img("", "no source"),
                                Img("essays-4.gif", "")>>)>>)
          [] d = "charts" ->
                 Html(<<Img("chart.GIF", "Chart"), Text(ProseC),
                        Img("/Trans_1X1.GIF", "")>>)
          [] d = "links" -> Html(<<Table("td", <<A("Some Other Essay")>>), Text(ProseB)>>)
          [] d = "yc_table" -> Html(<<Table("font", <<Text(YcLine)>>)>>)
          [] d = "yc_plain" -> Plain(YcLine)
          [] d = "plain_code" ->
                 Plain("Chapter 2\n\nA function is defined with def & called <often>.\n\n  (defun foo (x)\n  (bar x))\nafter the code")
          [] d = "plain_long" -> Plain(ProseA \o "\n\n" \o ProseB \o "\n")
          [] d = "bare" -> Html(<< >>)
          [] d = "plain_markup" ->
                 Plain("Home | Essays | RSS\n\nNot markup: <img src=\"photo.png\"> stays text.")
          [] d = "tie" -> Html(<<TableAB, TableBA>>)
          [] d = "tie_rev" -> Html(<<TableBA, TableAB>>)
          [] d = "longer_last" -> Html(<<TableAB, TableLong, TableBA>>)
          [] d = "at_limit" -> Html(<<Text(ProseE), TableAtLimit>>)
          [] d = "filters" -> Html(<<FiltersTable>>)
          [] d = "trailing" ->
                 Html(<<Table("font",
                              ProseRun \o
                              <<Text("Another Title"), Br(2),
                                Text("The Other Road Ahead Considered."), Br(2),
                                Text("a fragment with no full stop"), Br(2),
                                Text("Some Other Essay")>>)>>)
          [] d = "trailing_stop" ->
                 Html(<<Table("font",
                              ProseRun \o
                              <<Text("Some Other Essay"), Br(2),
                                Text("it ends in a period, short."), Br(2),
                                Text("Yet Another Essay")>>)>>)
          [] OTHER -> Plain("")]

\* the outcomes of fetch_binary during an extraction
ExtractOutcomes == {NoData, ImageBytes(20, 20), ImageBytes(150, 150)}

\* contents that ContentCache.load_essay_content may hand to cmd_build
CachedContents ==
    {<<Para("Short")>>,
     <<Para(ProseA)>>,
     <<Para("Intro"), Text(ProseB)>>,
     <<Wrapper("table", <<Wrapper("tr", <<Wrapper("td", <<Text(ProseC)>>)>>)>>)>>}

(***************************************************************************)
(* extract_main_content on the documents of the model.  What a step makes  *)
(* of a document does not depend on the parser, so it is tabulated once.   *)
(***************************************************************************)
PlainTextResults ==
    [d \in {e \in DocIds : IsPlainText(Docs[e].html)} |-> PlainTextResult(Docs[d].html)]

ContentSoups ==
    [d \in {e \in DocIds : ~IsPlainText(Docs[e].html)} |-> ContentSoup(Docs[d].body)]

\* the url download_image is called with for the <img> at a path of soup
ImgUrl(soup, path) ==
    LET src == NodeAt(soup, path).src
    IN  IF StartsWith(src, "http") THEN src ELSE urljoin(base_url, src)

\* the trees process_images can leave of a content_soup: every image is
\* decomposed or has the src of its cache file
SoupsAfterImages(soup) ==
    LET paths == ImgPaths(soup, 1)
        NewSrcs(m) ==
            IF NodeAt(soup, paths[m]).src = "" THEN {Decomposed}
            ELSE {Decomposed, "images/" \o FilenameOf[ImgUrl(soup, paths[m])]}
    IN  {WithSrcs(soup, paths, srcs) :
            srcs \in {f \in [1..Len(paths) -> {Decomposed} \cup {"images/" \o n : n \in Filenames}] :
                         \A m \in 1..Len(paths) : f[m] \in NewSrcs(m)}}

\* (@@ gives the table as an explicit function)
ContainerResults ==
    [key \in (UNION {SoupsAfterImages(ContentSoups[d]) : d \in DOMAIN ContentSoups}) \X Titles |->
        ContainerResult(key[1], key[2])] @@ << >>

\* the number of images with a src that process_images meets in a document
SrcCount ==
    [d \in DocIds |->
        IF d \in DOMAIN ContentSoups
        THEN LET paths == ImgPaths(ContentSoups[d], 1)
             IN  Cardinality({m \in 1..Len(paths) : NodeAt(ContentSoups[d], paths[m]).src # ""})
        ELSE 0]

\* extract_main_content(html, base_url, title) on parser P for the document
\* d.  The result holds the returned markup and images, the tree the markup
\* parses into (nodes), the candidate paragraphs with the indices of those
\* kept, and the parser afterwards with its download_image calls.
extract_main_content(P, d, title, nets) ==
    IF IsPlainText(Docs[d].html)
    THEN [plain |-> TRUE,
          markup |-> PlainTextResults[d].markup, nodes |-> PlainTextResults[d].nodes,
          images |-> << >>, paragraphs |-> << >>, emitted |-> << >>, kept |-> << >>,
          P |-> P, log |-> << >>, soup |-> << >>]
    ELSE CHOOSE res \in
             {[plain |-> FALSE,
               markup |-> out.markup, nodes |-> out.nodes,
               images |-> imgs.images_data,
               paragraphs |-> out.paragraphs, emitted |-> out.emitted, kept |-> out.kept,
               P |-> imgs.P, log |-> imgs.log, soup |-> imgs.soup] :
                  <<imgs, out>> \in
                      {<<i, ContainerResults[<<i.soup, title>>]>> :
                           i \in {process_images(P, ContentSoups[d], nets)}}} : TRUE

(***************************************************************************)
(* State                                                                   *)
(***************************************************************************)
VARIABLES
    scraper,            \* self.scraper is set (TRUE) or None (FALSE)
    downloaded_images,  \* self.downloaded_images: url -> cached file name
    image_cache,        \* IMAGES_CACHE_DIR: file name -> bytes, or NoFile
    fetch_calls,        \* number of fetch_binary invocations so far, per URL
    first_ok,           \* per URL, the first pair download_image returned for it
    dl,                 \* the last download_image call: url, net, ret, fetched
    ex,                 \* what the last extract_main_content call returned
    ch,                 \* the last build_chapter_html call: arguments and result
    pc,                 \* where cmd_build is with the current essay
    essays,             \* number of essays cmd_build has processed
    call,               \* the last call of a function without side effects
    state_essays,       \* StateManager.essays: essay id -> EssayState
    st,                 \* the last StateManager call: name, arguments, result
    state_file,         \* STATE_FILE: the JSON document save() wrote, or no file
    content_cache,      \* CONTENT_CACHE_DIR: file name -> JSON document, or no file
    last_saved,         \* per essay id, the content last passed to save_essay_content
    cc,                 \* the last ContentCache call: name, essay id, result
    build,              \* cmd_build: mode, essays done, the two chapter lists
    par                 \* the ContentParser instances that run concurrently

\* the parser, its environment and the position of cmd_build
parserVars ==
    <<scraper, downloaded_images, image_cache, fetch_calls, first_ok, dl, ex, ch, pc,
      essays>>

\* the files and objects beside the parser and the StateManager
moreVars == <<content_cache, last_saved, cc, build, par>>

restVars == <<state_file, moreVars>>

vars == <<parserVars, call, state_essays, st, restVars>>

\* the parser and its environment, as download_image reads them
Parser ==
    [scraper |-> scraper, memo |-> downloaded_images, disk |-> image_cache,
     calls |-> fetch_calls]

\* total number of fetch_binary invocations
TotalFetches ==
    LET Sum[S \in SUBSET AbsUrls] ==
            IF S = {} THEN 0
            ELSE LET x == CHOOSE y \in S : TRUE IN fetch_calls[x] + Sum[S \ {x}]
    IN  Sum[AbsUrls]

\* bound on the fetch_binary invocations of one run
MaxFetches == 2

\* an image a previous run may have left in the cache directory
StaleBytes == ImageBytes(150, 150)

NoCall == [url |-> "", net |-> NoData, ret |-> None, fetched |-> FALSE]

NoChapter == [content |-> << >>, title |-> "", date_str |-> "", out |-> Rejection]

\* no function has been called yet
NoFunction == [fn |-> "", arg |-> "", ret |-> "", done |-> FALSE]

\* no StateManager method has been called yet
NoStateCall == [name |-> "", n |-> 0, args |-> << >>, ret |-> 0]

\* A freshly constructed parser, with or without a scraper; the cache
\* directory is empty or holds the files of a previous run.
ParserInit ==
    /\ scraper \in BOOLEAN
    /\ downloaded_images = << >>
    /\ image_cache \in {[f \in Filenames |-> NoFile], [f \in Filenames |-> StaleBytes]}
    /\ fetch_calls = [u \in AbsUrls |-> 0]
    /\ first_ok = [u \in AbsUrls |-> None]
    /\ dl = NoCall
    /\ ex = NoExtract
    /\ ch = NoChapter
    /\ pc = "idle"
    /\ essays = 0

\* the state file does not exist
NoStateFile == [kind |-> "absent", last_update |-> "", essays |-> << >>]

(***************************************************************************)
(* ContentCache                                                            *)
(***************************************************************************)
\* s.replace(old, new) for an old of any length, from character k on
RECURSIVE ReplaceAll(_, _, _, _)
ReplaceAll(s, old, new, k) ==
    IF k > Len(s) THEN ""
    ELSE IF k + Len(old) - 1 <= Len(s) /\ SubSeq(s, k, k + Len(old) - 1) = old
         THEN new \o ReplaceAll(s, old, new, k + Len(old))
    ELSE CharAt(s, k) \o ReplaceAll(s, old, new, k + 1)

\* ContentCache._get_cache_path: the name of the file in CONTENT_CACHE_DIR
get_cache_path(essay_id) ==
    LET s1 == ReplaceAll(essay_id, "/", "_", 1)
        safe_id == ReplaceAll(s1, ".html", "", 1)
    IN  safe_id \o ".json"

B64Alphabet == "ABCDEFGHIJKLMNOPQRSTUVWXYZabcdefghijklmnopqrstuvwxyz0123456789+/"

\* the Base64 digit of a value 0..63
B64Char(v) == CharAt(B64Alphabet, v + 1)

\* the value 0..63 of a Base64 digit
B64Value(c) == CHOOSE v \in 0..63 : B64Char(v) = c

\* base64.b64encode(img_bytes).decode('utf-8')
RECURSIVE b64encode(_)
b64encode(b) ==
    IF Len(b) = 0 THEN ""
    ELSE IF Len(b) = 1
         THEN B64Char(b[1] \div 4) \o B64Char((b[1] % 4) * 16) \o "=="
    ELSE IF Len(b) = 2
         THEN B64Char(b[1] \div 4) \o B64Char((b[1] % 4) * 16 + b[2] \div 16)
              \o B64Char((b[2] % 16) * 4) \o "="
    ELSE B64Char(b[1] \div 4) \o B64Char((b[1] % 4) * 16 + b[2] \div 16)
         \o B64Char((b[2] % 16) * 4 + b[3] \div 64) \o B64Char(b[3] % 64)
         \o b64encode(SubSeq(b, 4, Len(b)))

\* base64.b64decode(data) of a padded Base64 text
RECURSIVE b64decode(_)
b64decode(data) ==
    IF Len(data) < 4 THEN << >>
    ELSE LET n1 == B64Value(CharAt(data, 1))
             n2 == B64Value(CharAt(data, 2))
             c3 == CharAt(data, 3)
             c4 == CharAt(data, 4)
             byte1 == n1 * 4 + n2 \div 16
         IN  IF c3 = "=" THEN <<byte1>>
             ELSE IF c4 = "="
                  THEN <<byte1, (n2 % 16) * 16 + B64Value(c3) \div 4>>
             ELSE <<byte1, (n2 % 16) * 16 + B64Value(c3) \div 4,
                    (B64Value(c3) % 4) * 64 + B64Value(c4)>>
                  \o b64decode(SubSeq(data, 5, Len(data)))

\* the images_data list of save_essay_content, from entry k on
RECURSIVE ImagesData(_, _)
ImagesData(images, k) ==
    IF k > Len(images) THEN << >>
    ELSE <<[filename |-> images[k][1], data |-> b64encode(images[k][2])]>>
         \o ImagesData(images, k + 1)

\* the images list of load_essay_content, from entry k on
RECURSIVE ImagesFrom(_, _)
ImagesFrom(images_data, k) ==
    IF k > Len(images_data) THEN << >>
    ELSE <<(<<images_data[k].filename, b64decode(images_data[k].data)>>)>>
         \o ImagesFrom(images_data, k + 1)

\* no file of that name in CONTENT_CACHE_DIR
NoCacheFile == [essay_id |-> "", content_html |-> "", images |-> << >>, exists |-> FALSE]

\* the cache_data document save_essay_content dumps
CacheData(essay_id, content_html, images) ==
    [essay_id |-> essay_id, content_html |-> content_html,
     images |-> ImagesData(images, 1), exists |-> TRUE]

\* the essay ids of the model: relative links to a page, to a page in a
\* directory, to a page with an underscore, and a text chapter
CacheIds == {"a.html", "notes/a.html", "notes_a.html", "acl1.txt"}

\* the files save_essay_content can write for these ids
CacheFiles == {get_cache_path(id) : id \in CacheIds}

EmptyCacheDir == [f \in CacheFiles |-> NoCacheFile]

\* cache.save_essay_content(essay_id, content_html, images): the directory
\* after the call
save_essay_content(dir, essay_id, content_html, images) ==
    [dir EXCEPT ![get_cache_path(essay_id)] = CacheData(essay_id, content_html, images)]

\* cache.load_essay_content(essay_id): None, or (content_html, images)
load_essay_content(dir, essay_id) ==
    LET cache_data == dir[get_cache_path(essay_id)]
    IN  IF ~cache_data.exists THEN None
        ELSE <<cache_data.content_html, ImagesFrom(cache_data.images, 1)>>

\* cache.clear_cache(): every *.json file is unlinked
clear_cache(dir) == [f \in DOMAIN dir |-> NoCacheFile]

\* no ContentCache method has been called yet
NoCacheCall == [name |-> "", n |-> 0, essay_id |-> "", ret |-> None]

\* cmd_build has not started
NoBuild ==
    [pc |-> "start", rebuild_mode |-> FALSE, essays_list |-> << >>, done |-> 0,
     read_essays |-> << >>, unread_essays |-> << >>, outcomes |-> << >>, ret |-> None]

\* no parser instance besides the one of the run
NoParsers == << >>

\* the content cache directory is empty, cmd_build and the concurrent
\* parsers have not started
RestInit ==
    /\ content_cache = EmptyCacheDir
    /\ last_saved = [id \in CacheIds |-> None]
    /\ cc = NoCacheCall
    /\ build = NoBuild
    /\ par = NoParsers

\* no essay is known: the state file does not exist
StateInit ==
    /\ state_essays = << >>
    /\ st = NoStateCall
    /\ state_file = NoStateFile
    /\ RestInit

Init == ParserInit /\ call = NoFunction /\ StateInit

\* a caller invokes parser.download_image(img_url)
DownloadImageCall(img_url, net) ==
    LET r == download_image(Parser, img_url, net)
    IN  /\ r.fetched => TotalFetches < MaxFetches
        /\ downloaded_images' = r.memo
        /\ image_cache' = r.disk
        /\ fetch_calls' = r.calls
        /\ first_ok' = IF r.ret # None /\ first_ok[img_url] = None
                       THEN [first_ok EXCEPT ![img_url] = r.ret]
                       ELSE first_ok
        /\ dl' = [url |-> img_url, net |-> IF r.fetched THEN net ELSE NoData,
                  ret |-> r.ret, fetched |-> r.fetched]
        /\ UNCHANGED <<scraper, ex, ch, pc, essays, call, state_essays, st, restVars>>

Next == \E img_url \in AbsUrls, net \in FetchOutcomes : DownloadImageCall(img_url, net)

Spec == Init /\ [][Next]_vars

\* the first download_image call on a fresh parser, for every image size
NextDims ==
    /\ dl = NoCall
    /\ \E img_url \in {UrlPhoto, UrlPic}, net \in AllImages :
           DownloadImageCall(img_url, net)

SpecDims == Init /\ [][NextDims]_vars

\* bound on the essays cmd_build processes in one run
MaxEssays == 2

\* first_ok after the download_image calls of log, from index k on
RECURSIVE FirstOkAfter(_, _, _)
FirstOkAfter(first, log, k) ==
    IF k > Len(log) THEN first
    ELSE FirstOkAfter(IF log[k].ret # None /\ first[log[k].url] = None
                      THEN [first EXCEPT ![log[k].url] = log[k].ret]
                      ELSE first,
                      log, k + 1)

\* cmd_build has no cached content for an essay: it fetches the page d and
\* calls parser.extract_main_content(html, base_url, title)
ExtractCall(d, title, nets) ==
    /\ pc # "extracted"
    /\ essays < MaxEssays
    /\ \E r \in {extract_main_content(Parser, d, title, nets)} :
           /\ ex' = [doc |-> d, title |-> title, plain |-> r.plain, markup |-> r.markup,
                     nodes |-> r.nodes, images |-> r.images,
                     paragraphs |-> r.paragraphs, emitted |-> r.emitted, kept |-> r.kept,
                     soup |-> r.soup,
                     log |-> r.log]
           /\ downloaded_images' = r.P.memo
           /\ image_cache' = r.P.disk
           /\ fetch_calls' = r.P.calls
           /\ first_ok' = FirstOkAfter(first_ok, r.log, 1)
           /\ dl' = IF r.log = << >> THEN dl ELSE r.log[Len(r.log)]
    /\ essays' = essays + 1
    /\ pc' = "extracted"
    /\ ch' = NoChapter
    /\ UNCHANGED <<scraper, call, state_essays, st, restVars>>

\* cmd_build calls parser.build_chapter_html on the content just extracted
BuildChapterCall(date_str) ==
    /\ pc = "extracted"
    /\ pc' = "built"
    /\ ch' = [content |-> ex.nodes, title |-> ex.title, date_str |-> date_str,
              out |-> build_chapter_html(ex.title, ex.nodes, date_str)]
    /\ UNCHANGED <<scraper, downloaded_images, image_cache, fetch_calls, first_ok, dl,
                   ex, essays, call, state_essays, st, restVars>>

\* cmd_build finds the content of an essay in the cache and calls
\* parser.build_chapter_html on it
BuildCachedCall(content, title, date_str) ==
    /\ pc # "extracted"
    /\ essays < MaxEssays
    /\ essays' = essays + 1
    /\ pc' = "built"
    /\ ex' = NoExtract
    /\ ch' = [content |-> content, title |-> title, date_str |-> date_str,
              out |-> build_chapter_html(title, content, date_str)]
    /\ UNCHANGED <<scraper, downloaded_images, image_cache, fetch_calls, first_ok, dl,
                   call, state_essays, st, restVars>>

NextExtract ==
    \/ \E d \in DocIds, title \in Titles :
           \E nets \in [1..SrcCount[d] -> ExtractOutcomes] : ExtractCall(d, title, nets)
    \/ \E date_str \in DateLabels : BuildChapterCall(date_str)
    \/ \E content \in CachedContents, title \in Titles, date_str \in DateLabels :
           BuildCachedCall(content, title, date_str)

SpecExtract == Init /\ [][NextExtract]_vars

(***************************************************************************)
(* Scraper.parse_date_string                                               *)
(***************************************************************************)
\* the value None as iso_date; no ISO date is this string
NoDate == "None"

\* month_map with every month mapped to '01'
month_map_january == [m \in MonthNames |-> "01"]

month_map ==
    [m \in MonthNames |->
        CASE m = "january" -> "01" [] m = "february" -> "02" [] m = "march" -> "03"
          [] m = "april" -> "04" [] m = "may" -> "05" [] m = "june" -> "06"
          [] m = "july" -> "07" [] m = "august" -> "08" [] m = "september" -> "09"
          [] m = "october" -> "10" [] m = "november" -> "11" [] m = "december" -> "12"]

\* month_map.get(month_name.lower(), '01')
MonthNumber(month_name) ==
    LET key == Lower(month_name)
    IN  IF key \in DOMAIN month_map THEN month_map[key] ELSE "01"

\* re.search of (Month)\s+(\d{4}): the first index of date_str at which it
\* matches, or 0
MonthYearSearch(date_str) ==
    LET hits == {i \in 1..Len(date_str) : MonthYearEnd(date_str, i) # 0}
    IN  IF hits = {} THEN 0 ELSE CHOOSE i \in hits : \A j \in hits : i <= j

\* \w for one ASCII character
IsWordChar(c) == IsAlphaChar(c) \/ IsDigitChar(c) \/ c = "_"

\* \b(19\d{2}|20\d{2})\b matches at date_str[i]
YearAt(date_str, i) ==
    /\ i + 3 <= Len(date_str)
    /\ SubSeq(date_str, i, i + 1) \in {"19", "20"}
    /\ IsDigitChar(CharAt(date_str, i + 2))
    /\ IsDigitChar(CharAt(date_str, i + 3))
    /\ i = 1 \/ ~IsWordChar(CharAt(date_str, i - 1))
    /\ i + 3 = Len(date_str) \/ ~IsWordChar(CharAt(date_str, i + 4))

\* re.search of the year pattern: the first index at which it matches, or 0
YearSearch(date_str) ==
    LET hits == {i \in 1..Len(date_str) : YearAt(date_str, i)}
    IN  IF hits = {} THEN 0 ELSE CHOOSE i \in hits : \A j \in hits : i <= j

\* parse_date_string without date_str = date_str.strip()
parse_date_string_unstripped(label) ==
    LET date_str == label
        m == MonthYearSearch(date_str)
        y == YearSearch(date_str)
    IN  IF label = "" THEN <<NoDate, "">>
        ELSE IF m # 0
        THEN LET month_name == SubSeq(date_str, m, MonthEnd(date_str, m) - 1)
                 e == MonthYearEnd(date_str, m)
                 year == SubSeq(date_str, e - 4, e - 1)
             IN  <<year \o "-" \o MonthNumber(month_name) \o "-01", date_str>>
        ELSE IF y # 0 THEN <<SubSeq(date_str, y, y + 3) \o "-01-01", date_str>>
        ELSE <<NoDate, date_str>>

\* (iso_date, raw_date_str)
parse_date_string(label) ==
    LET date_str == Strip(label)
        m == MonthYearSearch(date_str)
        y == YearSearch(date_str)
    IN  IF label = "" THEN <<NoDate, "">>
        ELSE IF m # 0
        THEN LET month_name == SubSeq(date_str, m, MonthEnd(date_str, m) - 1)
                 e == MonthYearEnd(date_str, m)
                 year == SubSeq(date_str, e - 4, e - 1)
             IN  <<year \o "-" \o MonthNumber(month_name) \o "-01", date_str>>
        ELSE IF y # 0 THEN <<SubSeq(date_str, y, y + 3) \o "-01-01", date_str>>
        ELSE <<NoDate, date_str>>

(***************************************************************************)
(* Calls of the functions that have no side effect                         *)
(***************************************************************************)
\* the strings of exactly n characters of chars
RECURSIVE TextsOfLen(_, _)
TextsOfLen(chars, n) ==
    IF n = 0 THEN {""}
    ELSE {t \o c : t \in TextsOfLen(chars, n - 1), c \in chars}

\* the strings of at most n characters of chars
TextsUpTo(chars, n) == UNION {TextsOfLen(chars, k) : k \in 0..n}

\* the characters escape_html replaces, and three it leaves alone
EscapeChars == {"&", "<", ">", "\"", "'", "a", ";", "#"}

\* bound on the length of the texts escape_html is called with
MaxTextLen == 3

EscapeTexts == TextsUpTo(EscapeChars, MaxTextLen)

\* a call that is about to be made
Pending(fn, arg) == [fn |-> fn, arg |-> arg, ret |-> "", done |-> FALSE]

\* the month names as the index page spells them, in calendar order
MonthSpellings ==
    <<"January", "February", "March", "April", "May", "June", "July", "August",
      "September", "October", "November", "December">>

\* the parts the date labels are put together from
LabelLeads == {"", " ", "x"}

LabelMonths == {MonthSpellings[k] : k \in 1..12} \cup {"", "july", "JULY", "Jul"}

LabelGaps == {"", " ", "  "}

LabelYears == {"", "2023", "1993", "1900", "2099", "1899", "2100", "203", "20235"}

LabelTails == {"", " ", ", rev. May 2009", "s"}

\* the labels parse_date_string is called with
ParseLabels ==
    {a \o m \o g \o y \o z :
        a \in LabelLeads, m \in LabelMonths, g \in LabelGaps, y \in LabelYears,
        z \in LabelTails}

\* pieces of text between blank lines, each as it is written (raw) and as
\* it reads once trimmed and with its runs of blanks and tabs made one space
\* (clean)
TextPieces ==
    {[raw |-> "", clean |-> ""],
     [raw |-> "123456789", clean |-> "123456789"],
     [raw |-> "1234567890", clean |-> "1234567890"],
     [raw |-> "12345678901", clean |-> "12345678901"],
     [raw |-> "ten  chars.", clean |-> "ten chars."],
     [raw |-> "  padded text\t", clean |-> "padded text"],
     [raw |-> "a\t\tb  c defghi", clean |-> "a b c defghi"],
     [raw |-> "line one\nline two", clean |-> "line one\nline two"]}

\* blank-line boundaries
BlankLines == {"\n\n", "\n \t\n", "\r\n\r\n"}

\* the texts text_to_paragraphs is called with: three pieces and the two
\* boundaries between them
ParagraphTexts ==
    {[text |-> a.raw \o x \o b.raw \o y \o c.raw, pieces |-> <<a, b, c>>] :
        a \in TextPieces, b \in TextPieces, c \in TextPieces,
        x \in BlankLines, y \in BlankLines}

\* links whose text is a navigation keyword but for case and blanks, and
\* links whose text is none, the third of them with a keyword inside
KeywordLinks == <<A("Home"), A(" ESSAYS "), A("rss"), A("FAQs")>>

OtherLinks == <<A("Index"), A("Next"), A("Home page")>>

\* 530 characters of prose
LongProse == ProseA \o " " \o ProseB \o " " \o ProseC \o " " \o ProseD

\* what a table holds beside its links: nothing, a sentence, prose that
\* takes the text of the table to 500 characters and more
TableFillers ==
    {<< >>, <<Text("A sentence without any of the words.")>>, <<Text(LongProse)>>}

\* the lengths of prose that bring the text of a table with the links Home,
\* ESSAYS and rss next to 500 characters
NearLimitLengths == {485, 486, 487, 488}

\* the tables remove_navigation is tried on, each alone in its document
NavigationTables ==
    {Table("td", SubSeq(KeywordLinks, 1, k) \o SubSeq(OtherLinks, 1, m) \o filler) :
        k \in 0..4, m \in 0..3, filler \in TableFillers}
        \cup {Table("td", SubSeq(KeywordLinks, 1, 3) \o <<Text(SubSeq(LongProse, 1, n))>>) :
                  n \in NearLimitLengths}
        \cup {Table("td", <<Text("Home"), Br(1), Text("Home"), Br(1), Text("Home")>>),
              Table("td", <<Text("Research labels on biology were the start.")>>),
              Table("td", SubSeq(KeywordLinks, 1, 3)
                              \o <<Table("td", <<Text("A table inside the links.")>>)>>),
              Table("td", <<Text(LongProse), Table("td", SubSeq(KeywordLinks, 1, 3))>>),
              Table("td", <<Text(LongProse), A("Home"), A("Index"), A("Next"),
                            Table("td", <<A("Essays"), A("RSS")>>)>>)}

\* lines of a plain-text page: blank ones, text, text with characters to
\* escape, indented text, and lines that count as code
PlainLines ==
    {"", " \t", "   ", "Plain words.", "a < b & c", " (one blank before)", "  indented text",
     "  (car x)", "  undefined <b>"}

\* bound on the number of lines of a plain-text page
MaxLines == 3

\* the pages of up to MaxLines lines, each with its lines
PlainPages ==
    {[text |-> JoinWith(lines, "\n", 1), lines |-> lines] :
        lines \in UNION {[1..n -> PlainLines] : n \in 1..MaxLines}}

PendingCalls ==
    {Pending("escape_html", text) : text \in EscapeTexts}
        \cup {Pending("parse_date_string", label) : label \in ParseLabels}
        \cup {Pending("text_to_paragraphs", t) : t \in ParagraphTexts}
        \cup {Pending("remove_navigation", [body |-> <<t>>]) : t \in NavigationTables}
        \cup {Pending("convert_plaintext_to_html", page) : page \in PlainPages}

\* a parser without scraper, as the tests construct it, and one call to make
InitFunctions ==
    /\ ParserInit
    /\ ~scraper
    /\ \A f \in Filenames : image_cache[f] = NoFile
    /\ call \in PendingCalls
    /\ StateInit

\* parser.escape_html(text)
EscapeHtmlCall ==
    /\ call.fn = "escape_html"
    /\ ~call.done
    /\ call' = [call EXCEPT !.ret = escape_html(call.arg), !.done = TRUE]
    /\ UNCHANGED <<parserVars, state_essays, st, restVars>>

\* scraper.parse_date_string(date_str)
ParseDateStringCall ==
    /\ call.fn = "parse_date_string"
    /\ ~call.done
    /\ call' = [call EXCEPT !.ret = parse_date_string(call.arg), !.done = TRUE]
    /\ UNCHANGED <<parserVars, state_essays, st, restVars>>

\* parser.text_to_paragraphs(text)
TextToParagraphsCall ==
    /\ call.fn = "text_to_paragraphs"
    /\ ~call.done
    /\ call' = [call EXCEPT !.ret = text_to_paragraphs(call.arg.text), !.done = TRUE]
    /\ UNCHANGED <<parserVars, state_essays, st, restVars>>

\* parser.remove_navigation(soup): ret is the tree afterwards
RemoveNavigationCall ==
    /\ call.fn = "remove_navigation"
    /\ ~call.done
    /\ call' = [call EXCEPT !.ret = remove_navigation(call.arg.body), !.done = TRUE]
    /\ UNCHANGED <<parserVars, state_essays, st, restVars>>

\* parser.convert_plaintext_to_html(text): ret holds html_parts and the
\* string returned
ConvertPlaintextCall ==
    /\ call.fn = "convert_plaintext_to_html"
    /\ ~call.done
    /\ \E parts \in {PlainTextHtmlParts(call.arg.text)} :
           call' = [call EXCEPT !.ret = [parts |-> parts, html |-> JoinWith(parts, "\n", 1)],
                                !.done = TRUE]
    /\ UNCHANGED <<parserVars, state_essays, st, restVars>>

NextFunctions ==
    \/ ConvertPlaintextCall
    \/ EscapeHtmlCall
    \/ ParseDateStringCall
    \/ TextToParagraphsCall
    \/ RemoveNavigationCall

SpecFunctions == InitFunctions /\ [][NextFunctions]_vars

(***************************************************************************)
(* StateManager: update_essay, mark_read, mark_unread and the two queries  *)
(***************************************************************************)
\* the value None of an optional string argument or field
NoString == "None"

\* the optional argument read: omitted (None), True or False
ReadArgs == {"None", "True", "False"}

\* one EssayState
EssayState(essay_id, title, url, date, raw_date_str, read, last_seen) ==
    [essay_id |-> essay_id, title |-> title, url |-> url, date |-> date,
     raw_date_str |-> raw_date_str, read |-> read, last_seen |-> last_seen]

\* self.essays is a dict: its entries in insertion order, one for each key.
\* The index of the entry of essay_id in store, or 0: essay_id in self.essays
IndexOf(store, essay_id) ==
    LET hits == {k \in 1..Len(store) : store[k].essay_id = essay_id}
    IN  IF hits = {} THEN 0 ELSE CHOOSE k \in hits : TRUE

\* update_essay that takes an omitted read for False on a known essay too
update_essay_read_reset(store, essay_id, title, url, date, raw_date_str, read, now) ==
    LET i == IndexOf(store, essay_id)
        fresh == EssayState(essay_id, title, url, date, raw_date_str, read = "True", now)
    IN  IF i # 0
        THEN [store EXCEPT ![i] = [fresh EXCEPT !.date = IF date # NoString THEN date
                                                       ELSE store[i].date,
                                                !.raw_date_str =
                                                    IF raw_date_str # NoString
                                                    THEN raw_date_str
                                                    ELSE store[i].raw_date_str]]
        ELSE Append(store, fresh)

\* self.essays after update_essay(essay_id, title, url, date, raw_date_str,
\* read) at the time now
update_essay(store, essay_id, title, url, date, raw_date_str, read, now) ==
    LET i == IndexOf(store, essay_id)
    IN  IF i # 0
        THEN [store EXCEPT ![i] =
                 [@ EXCEPT !.title = title,
                           !.url = url,
                           !.date = IF date # NoString THEN date ELSE @,
                           !.raw_date_str = IF raw_date_str # NoString THEN raw_date_str ELSE @,
                           !.read = IF read # "None" THEN read = "True" ELSE @,
                           !.last_seen = now]]
        ELSE Append(store,
                    EssayState(essay_id, title, url, date, raw_date_str,
                               IF read = "None" THEN FALSE ELSE read = "True", now))

\* the loop of mark_read and mark_unread from index k of essay_ids on: the
\* essays afterwards and the count
RECURSIVE MarkLoop(_, _, _, _, _)
MarkLoop(store, essay_ids, k, flag, count) ==
    IF k > Len(essay_ids) THEN [essays |-> store, count |-> count]
    ELSE LET i == IndexOf(store, essay_ids[k])
         IN  IF i # 0
             THEN MarkLoop([store EXCEPT ![i].read = flag], essay_ids, k + 1, flag, count + 1)
             ELSE MarkLoop(store, essay_ids, k + 1, flag, count)

\* mark_read that counts the ids it is given, known or not
mark_read_counts_all(store, essay_ids) ==
    [essays |-> MarkLoop(store, essay_ids, 1, TRUE, 0).essays, count |-> Len(essay_ids)]

mark_read(store, essay_ids) == MarkLoop(store, essay_ids, 1, TRUE, 0)

mark_unread(store, essay_ids) == MarkLoop(store, essay_ids, 1, FALSE, 0)

\* [e for e in self.essays.values() if not e.read]
get_unread_essays(store) ==
    LET Unread(e) == ~e.read IN SelectSeq(store, Unread)

\* [e for e in self.essays.values() if e.read]
get_read_essays(store) ==
    LET IsRead(e) == e.read IN SelectSeq(store, IsRead)

\* JSON values: null, a string, true or false
JNull == [t |-> "null", v |-> ""]

JString(s) == [t |-> "string", v |-> s]

JBool(b) == [t |-> "bool", v |-> IF b THEN "true" ELSE "false"]

\* json.dump of an Optional[str]
JOptional(x) == IF x = NoString THEN JNull ELSE JString(x)

\* asdict(essay)
asdict(essay) ==
    [essay_id |-> JString(essay.essay_id),
     title |-> JString(essay.title),
     url |-> JString(essay.url),
     date |-> JOptional(essay.date),
     raw_date_str |-> JOptional(essay.raw_date_str),
     read |-> JBool(essay.read),
     last_seen |-> JOptional(essay.last_seen)]

\* the 'essays' object of save(): one member for each essay, in dict order
RECURSIVE EssaysToJson(_, _)
EssaysToJson(store, k) ==
    IF k > Len(store) THEN << >>
    ELSE <<[key |-> store[k].essay_id, value |-> asdict(store[k])]>>
         \o EssaysToJson(store, k + 1)

\* the document save() writes at the time now
StateDocument(store, now) ==
    [kind |-> "json", last_update |-> now, essays |-> EssaysToJson(store, 1)]

\* a state file json.load cannot read
CorruptStateFile == [kind |-> "corrupt", last_update |-> "", essays |-> << >>]

\* what json.load makes of a JSON string or null, and of true or false
FromJOptional(j) == IF j.t = "null" THEN NoString ELSE j.v

FromJBool(j) == j.v = "true"

\* the EssayState of a member that takes every essay for unread
EssayFromJsonUnread(essay_id, essay_data) ==
    EssayState(essay_id, FromJOptional(essay_data.title), FromJOptional(essay_data.url),
               FromJOptional(essay_data.date), FromJOptional(essay_data.raw_date_str),
               FALSE, FromJOptional(essay_data.last_seen))

\* the EssayState load() builds of one member of 'essays'
EssayFromJson(essay_id, essay_data) ==
    EssayState(essay_id, FromJOptional(essay_data.title), FromJOptional(essay_data.url),
               FromJOptional(essay_data.date), FromJOptional(essay_data.raw_date_str),
               FromJBool(essay_data.read), FromJOptional(essay_data.last_seen))

\* the loop of load() from member k on, into the essays read so far
RECURSIVE LoadFrom(_, _, _)
LoadFrom(members, k, store) ==
    IF k > Len(members) THEN store
    ELSE LET e == EssayFromJson(members[k].key, members[k].value)
             i == IndexOf(store, members[k].key)
         IN  LoadFrom(members, k + 1,
                      IF i # 0 THEN [store EXCEPT ![i] = e] ELSE Append(store, e))

\* self.essays of a StateManager after __init__ on the state file: empty
\* when there is no file or the file cannot be read
load(file) == IF file.kind = "json" THEN LoadFrom(file.essays, 1, << >>) ELSE << >>

\* the ids of the essays of the index page, and an id no essay has
EssayIds == {"a.html", "b.html"}

UnknownId == "zzz.html"

\* title and url of an essay, as the index page gives them on two days
Listings ==
    {[title|-> "Old Title", url |-> "http://paulgraham.com/old.html"],
     [title|-> "New Title", url |-> "http://paulgraham.com/new.html"]}

IsoDates == {NoString, "2023-07-01"}

RawDates == {NoString, "July 2023"}

\* datetime.now().isoformat() at the calls
Timestamps == {"2024-01-01T10:00:00", "2024-01-02T10:00:00"}

\* bound on the number of ids given to mark_read or mark_unread
MaxIds == 2

\* list(set(essay_ids)) in cmd_mark_read and cmd_mark_unread: up to MaxIds
\* ids, none of them twice
IdLists ==
    {ids \in UNION {[1..n -> EssayIds \cup {UnknownId}] : n \in 1..MaxIds} :
        \A i, j \in 1..Len(ids) : i # j => ids[i] # ids[j]}

\* what load() can find in the state file of an earlier run
LoadedStores ==
    {<< >>,
     <<EssayState("a.html", "Old Title", "http://paulgraham.com/old.html", "2023-07-01",
                  "July 2023", TRUE, "2024-01-01T10:00:00")>>,
     <<EssayState("b.html", "Old Title", "http://paulgraham.com/old.html", NoString,
                  NoString, FALSE, "2024-01-01T10:00:00"),
       EssayState("a.html", "New Title", "http://paulgraham.com/new.html", "2023-07-01",
                  NoString, TRUE, "2024-01-01T10:00:00")>>}

\* the state files an earlier run can have left
StateFiles ==
    {NoStateFile, CorruptStateFile}
        \cup {StateDocument(store, "2024-01-01T10:00:00") : store \in LoadedStores \ {<< >>}}

\* bound on the number of StateManager calls in one run
MaxStateCalls == 2

\* a StateManager constructed on the state file of an earlier run
InitState ==
    /\ ParserInit
    /\ ~scraper
    /\ \A f \in Filenames : image_cache[f] = NoFile
    /\ call = NoFunction
    /\ state_file \in StateFiles
    /\ state_essays = load(state_file)
    /\ st = NoStateCall
    /\ RestInit

\* state.update_essay(essay_id, title, url, date, raw_date_str, read)
UpdateEssayCall(essay_id, listing, date, raw_date_str, read, now) ==
    /\ st.n < MaxStateCalls
    /\ state_essays' = update_essay(state_essays, essay_id, listing.title, listing.url, date,
                                    raw_date_str, read, now)
    /\ st' = [name |-> "update_essay", n |-> st.n + 1,
              args |-> [essay_id |-> essay_id, title |-> listing.title, url |-> listing.url,
                        date |-> date, raw_date_str |-> raw_date_str, read |-> read,
                        now |-> now],
              ret |-> 0]
    /\ UNCHANGED <<parserVars, call, restVars>>

\* state.mark_read(essay_ids)
MarkReadCall(essay_ids) ==
    /\ st.n < MaxStateCalls
    /\ \E r \in {mark_read(state_essays, essay_ids)} :
           /\ state_essays' = r.essays
           /\ st' = [name |-> "mark_read", n |-> st.n + 1,
                     args |-> [essay_ids |-> essay_ids], ret |-> r.count]
    /\ UNCHANGED <<parserVars, call, restVars>>

\* state.mark_unread(essay_ids)
MarkUnreadCall(essay_ids) ==
    /\ st.n < MaxStateCalls
    /\ \E r \in {mark_unread(state_essays, essay_ids)} :
           /\ state_essays' = r.essays
           /\ st' = [name |-> "mark_unread", n |-> st.n + 1,
                     args |-> [essay_ids |-> essay_ids], ret |-> r.count]
    /\ UNCHANGED <<parserVars, call, restVars>>

\* state.save() at the time now
SaveCall(now) ==
    /\ st.n < MaxStateCalls
    /\ state_file' = StateDocument(state_essays, now)
    /\ st' = [name |-> "save", n |-> st.n + 1, args |-> [now |-> now], ret |-> 0]
    /\ UNCHANGED <<parserVars, call, state_essays, moreVars>>

\* StateManager(): a new instance takes the place of the one in use
ConstructCall ==
    /\ st.n < MaxStateCalls
    /\ state_essays' = load(state_file)
    /\ st' = [name |-> "__init__", n |-> st.n + 1, args |-> << >>, ret |-> 0]
    /\ UNCHANGED <<parserVars, call, state_file, moreVars>>

NextState ==
    \/ \E essay_id \in EssayIds, listing \in Listings, date \in IsoDates,
          raw_date_str \in RawDates, read \in ReadArgs, now \in Timestamps :
           UpdateEssayCall(essay_id, listing, date, raw_date_str, read, now)
    \/ \E essay_ids \in IdLists : MarkReadCall(essay_ids)
    \/ \E essay_ids \in IdLists : MarkUnreadCall(essay_ids)

SpecState == InitState /\ [][NextState]_vars

\* a StateManager that has changed since it read the state file
InitPersist ==
    /\ ParserInit
    /\ ~scraper
    /\ \A f \in Filenames : image_cache[f] = NoFile
    /\ call = NoFunction
    /\ state_file \in {NoStateFile, CorruptStateFile}
    /\ state_essays \in LoadedStores
    /\ st = NoStateCall
    /\ RestInit

\* the calls of a run that saves the state and of the run after it
NextPersist ==
    \/ NextState
    \/ \E now \in Timestamps : SaveCall(now)
    \/ ConstructCall

SpecPersist == InitPersist /\ [][NextPersist]_vars

(***************************************************************************)
(* The calls of ContentCache                                               *)
(***************************************************************************)
\* bound on the ContentCache calls of one run
MaxCacheCalls == 3

\* the bytes of the images stored with an essay
PngBytes == <<137, 80, 78, 71>>
GifBytes == <<71, 73, 70, 56, 57>>
JpgBytes == <<255, 216, 255, 224, 0, 16>>

\* the (content_html, images) pairs cmd_build stores
CachedPairs ==
    {<<"<div class=\"essay-content\"><p>One.</p></div>", << >>>>,
     <<"<div class=\"essay-content\"><p>Two.</p></div>",
       <<(<<"0cc175b9.png", PngBytes>>), (<<"92eb5ffe.gif", GifBytes>>)>>>>,
     <<"<div class=\"essay-content\"><p>Three.</p></div>",
       <<(<<"4a8a08f0.jpg", JpgBytes>>)>>>>}

\* cache.save_essay_content(essay_id, content_html, images)
SaveEssayContentCall(essay_id, pair) ==
    /\ cc.n < MaxCacheCalls
    /\ content_cache' = save_essay_content(content_cache, essay_id, pair[1], pair[2])
    /\ last_saved' = [last_saved EXCEPT ![essay_id] = pair]
    /\ cc' = [name |-> "save_essay_content", n |-> cc.n + 1, essay_id |-> essay_id,
              ret |-> TRUE]
    /\ UNCHANGED <<parserVars, call, state_essays, st, state_file, build, par>>

\* cache.load_essay_content(essay_id)
LoadEssayContentCall(essay_id) ==
    /\ cc.n < MaxCacheCalls
    /\ cc' = [name |-> "load_essay_content", n |-> cc.n + 1, essay_id |-> essay_id,
              ret |-> load_essay_content(content_cache, essay_id)]
    /\ UNCHANGED <<parserVars, call, state_essays, st, state_file, content_cache,
                   last_saved, build, par>>

\* cache.clear_cache()
ClearCacheCall ==
    /\ cc.n < MaxCacheCalls
    /\ content_cache' = clear_cache(content_cache)
    /\ last_saved' = [id \in CacheIds |-> None]
    /\ cc' = [name |-> "clear_cache", n |-> cc.n + 1, essay_id |-> "",
              ret |-> Cardinality({f \in CacheFiles : content_cache[f].exists})]
    /\ UNCHANGED <<parserVars, call, state_essays, st, state_file, build, par>>

InitCache ==
    /\ ParserInit
    /\ ~scraper
    /\ \A f \in Filenames : image_cache[f] = NoFile
    /\ call = NoFunction
    /\ StateInit

NextCache ==
    \/ \E essay_id \in CacheIds, pair \in CachedPairs : SaveEssayContentCall(essay_id, pair)
    \/ \E essay_id \in CacheIds : LoadEssayContentCall(essay_id)
    \/ ClearCacheCall

SpecCache == InitCache /\ [][NextCache]_vars

(***************************************************************************)
(* cmd_build                                                               *)
(***************************************************************************)
\* bound on the essays of the index page
MaxBuildEssays == 2

\* essays_list in rebuild mode: one entry for each essay of the state
RECURSIVE EssaysListOf(_, _)
EssaysListOf(store, k) ==
    IF k > Len(store) THEN << >>
    ELSE <<[id |-> store[k].essay_id, title |-> store[k].title, url |-> store[k].url,
            date |-> store[k].date, raw_date_str |-> store[k].raw_date_str]>>
         \o EssaysListOf(store, k + 1)

\* the loop of state.update_essay over essays_list, from entry k on
RECURSIVE UpdateAll(_, _, _, _)
UpdateAll(store, essays_list, k, now) ==
    IF k > Len(essays_list) THEN store
    ELSE UpdateAll(update_essay(store, essays_list[k].id, essays_list[k].title,
                                essays_list[k].url, essays_list[k].date,
                                essays_list[k].raw_date_str, "None", now),
                   essays_list, k + 1, now)

\* the chapter lists with every chapter put on the unread list
ChapterListsUnreadOnly(read_essays, unread_essays, essay_state, essay_dict) ==
    [read_essays |-> read_essays, unread_essays |-> Append(unread_essays, essay_dict),
     list |-> "unread"]

\* the two chapter lists after the chapter of an essay was built
ChapterLists(read_essays, unread_essays, essay_state, essay_dict) ==
    IF essay_state.read
    THEN [read_essays |-> Append(read_essays, essay_dict), unread_essays |-> unread_essays,
          list |-> "read"]
    ELSE [read_essays |-> read_essays, unread_essays |-> Append(unread_essays, essay_dict),
          list |-> "unread"]

\* essay_state.raw_date_str or essay_state.date, "" when both are None
DateStrOf(essay_state) ==
    IF essay_state.raw_date_str \notin {NoString, ""} THEN essay_state.raw_date_str
    ELSE IF essay_state.date \notin {NoString, ""} THEN essay_state.date
    ELSE ""

\* scraper.fetch_html returns None
NoPage == "none"

\* the loop of cmd_build reaches the fetch of the page of essay_data: the
\* essay is known, the cache has no content for it and the mode is not
\* rebuild
ReachesFetch(run, store, essay_data, cached_data) ==
    /\ IndexOf(store, essay_data.id) # 0
    /\ cached_data = None
    /\ ~run.rebuild_mode

\* One pass of the loop of cmd_build over essay_data up to the call of
\* build_chapter_html, where run is the build so far, store the essays of
\* the StateManager, dir the content cache, cached_data what
\* cache.load_essay_content returned, page what scraper.fetch_essay_content
\* fetches if it is called (NoPage or a document), extracted the date it
\* finds in the page and r what parser.extract_main_content makes of the
\* page.  The outcome tells what happened: whether the essay is known,
\* whether cached content was found, the fetch ("none", "failed" or "ok"),
\* the chapter ("none", "rejected" or "ok") and the list the chapter was
\* put on.
essay_content(run, store, dir, P, essay_data, page, extracted, cached_data, r) ==
    LET essay_id == essay_data.id
        i == IndexOf(store, essay_id)
        none == [essay_id |-> essay_id, known |-> i # 0, cached |-> FALSE,
                 fetch |-> "none", chapter |-> "none", read |-> FALSE, list |-> "none"]
        Skip(outcome) ==
            [skipped |-> TRUE, store |-> store, dir |-> dir, P |-> P, log |-> << >>,
             saved |-> None, essay_state |-> << >>, content_html |-> << >>,
             images |-> << >>, outcome |-> outcome]
    IN  IF i = 0 THEN Skip(none)
        ELSE IF cached_data # None
             THEN [Skip([none EXCEPT !.read = store[i].read, !.cached = TRUE])
                      EXCEPT !.skipped = FALSE, !.essay_state = store[i],
                             !.content_html = cached_data[1], !.images = cached_data[2]]
        ELSE IF run.rebuild_mode THEN Skip([none EXCEPT !.read = store[i].read])
        ELSE IF page = NoPage \/ Docs[page].html = ""
             THEN Skip([none EXCEPT !.read = store[i].read, !.fetch = "failed"])
        ELSE LET st1 == IF extracted.date # NoString
                        THEN [store EXCEPT ![i].date = extracted.date,
                                           ![i].raw_date_str = extracted.raw_date_str]
                        ELSE store
             IN  [skipped |-> FALSE, store |-> st1,
                  dir |-> save_essay_content(dir, essay_id, r.nodes, r.images),
                  P |-> r.P, log |-> r.log, saved |-> <<r.nodes, r.images>>,
                  essay_state |-> st1[i], content_html |-> r.nodes, images |-> r.images,
                  outcome |-> [none EXCEPT !.read = store[i].read, !.fetch = "ok"]]

\* the rest of the pass: the build after the essay with content c was
\* skipped, or after build_chapter_html returned chapter_html for it
build_essay(run, c, chapter_html) ==
    IF c.skipped
    THEN [run EXCEPT !.done = @ + 1, !.outcomes = Append(@, c.outcome)]
    ELSE IF chapter_html.rejected
         THEN [run EXCEPT !.done = @ + 1,
                          !.outcomes = Append(@, [c.outcome EXCEPT !.chapter = "rejected"])]
    ELSE LET lists == ChapterLists(run.read_essays, run.unread_essays, c.essay_state,
                                   [essay_id |-> c.outcome.essay_id,
                                    content_html |-> chapter_html,
                                    images |-> c.images])
         IN  [run EXCEPT !.done = @ + 1,
                         !.read_essays = lists.read_essays,
                         !.unread_essays = lists.unread_essays,
                         !.outcomes = Append(@, [c.outcome EXCEPT !.chapter = "ok",
                                                                  !.list = lists.list])]

\* the essays of the index page, as fetch_essay_list returns them
BuildListing ==
    <<[id |-> "a.html", title |-> EssayTitle, url |-> "http://paulgraham.com/a.html",
       date |-> NoString, raw_date_str |-> NoString],
      [id |-> "acl1.txt", title |-> EssayTitle,
       url |-> "https://sep.turbifycdn.com/ty/cdn/paulgraham/acl1.txt",
       date |-> "1995-01-01", raw_date_str |-> "1995"],
      [id |-> "notes/a.html", title |-> EssayTitle,
       url |-> "http://paulgraham.com/notes/a.html",
       date |-> NoString, raw_date_str |-> NoString]>>

\* the essays the state file of an earlier run holds: none, or the two of
\* the index page, the first of them read
BuildStores ==
    {<< >>,
     <<EssayState("a.html", EssayTitle, "http://paulgraham.com/a.html", NoString,
                  NoString, TRUE, "2024-01-01T10:00:00"),
       EssayState("acl1.txt", EssayTitle,
                  "https://sep.turbifycdn.com/ty/cdn/paulgraham/acl1.txt", "1995-01-01",
                  "1995", FALSE, "2024-01-01T10:00:00")>>}

\* the content cache an earlier run left: for each essay nothing, content
\* too short for a chapter, or content long enough
BuildCaches ==
    {[f \in CacheFiles |->
         IF f = get_cache_path("a.html") /\ a # << >> THEN CacheData("a.html", a, << >>)
         ELSE IF f = get_cache_path("acl1.txt") /\ b # << >> THEN CacheData("acl1.txt", b, << >>)
         ELSE NoCacheFile] :
     a \in {<< >>, <<Para("Short")>>, <<Para(ProseA)>>}, b \in {<< >>, <<Para(ProseA)>>}}

\* the pages scraper.fetch_essay_content fetches: documents without images,
\* one of them empty and two of them without content for a chapter
BuildPages == {"essay", "plain_long", "yc_plain", "bare", "empty"}

\* the date extract_date_from_essay finds in a page, or none
ExtractedDates ==
    {[date |-> NoString, raw_date_str |-> NoString],
     [date |-> "2021-03-01", raw_date_str |-> "March 2021"]}

\* cmd_build up to the loop over the essays: the cache is cleared on a
\* forced refresh; in rebuild mode the essays are those of the state, else
\* those of the index page, which are entered in the state and saved
BuildStartCall(rebuild, force_refresh, fetched_list, now) ==
    /\ build.pc = "start"
    /\ LET rebuild_mode == rebuild /\ ~force_refresh
           essays_list == IF rebuild_mode THEN EssaysListOf(state_essays, 1)
                          ELSE fetched_list
       IN  /\ content_cache' = IF force_refresh THEN clear_cache(content_cache)
                               ELSE content_cache
           /\ last_saved' = IF force_refresh THEN [id \in CacheIds |-> None] ELSE last_saved
           /\ IF essays_list = << >>
              THEN /\ build' = [build EXCEPT !.pc = "done", !.rebuild_mode = rebuild_mode,
                                             !.ret = 1]
                   /\ UNCHANGED <<state_essays, state_file>>
              ELSE /\ build' = [build EXCEPT !.pc = "loop", !.rebuild_mode = rebuild_mode,
                                             !.essays_list = essays_list]
                   /\ IF rebuild_mode THEN UNCHANGED <<state_essays, state_file>>
                      ELSE /\ state_essays' = UpdateAll(state_essays, essays_list, 1, now)
                           /\ state_file' = StateDocument(state_essays', now)
    /\ UNCHANGED <<parserVars, call, st, cc, par>>

\* one pass of the loop of cmd_build
BuildEssayCall(page, extracted) ==
    /\ build.pc = "loop"
    /\ build.done < Len(build.essays_list)
    /\ \E essay_data \in {build.essays_list[build.done + 1]} :
       \E cached_data \in {load_essay_content(content_cache, essay_data.id)} :
       \E r \in {IF /\ ReachesFetch(build, state_essays, essay_data, cached_data)
                     /\ page # NoPage
                     /\ Docs[page].html # ""
                  THEN extract_main_content(Parser, page,
                           state_essays[IndexOf(state_essays, essay_data.id)].title, << >>)
                  ELSE [P |-> Parser]} :
       \E c \in {essay_content(build, state_essays, content_cache, Parser, essay_data,
                                page, extracted, cached_data, r)} :
       \E chapter_html \in {IF c.skipped THEN Rejection
                             ELSE build_chapter_html(c.essay_state.title, c.content_html,
                                                     DateStrOf(c.essay_state))} :
           /\ build' = build_essay(build, c, chapter_html)
           /\ state_essays' = c.store
           /\ content_cache' = c.dir
           /\ last_saved' = IF c.saved = None THEN last_saved
                            ELSE [last_saved EXCEPT ![essay_data.id] = c.saved]
           /\ downloaded_images' = c.P.memo
           /\ image_cache' = c.P.disk
           /\ fetch_calls' = c.P.calls
           /\ first_ok' = FirstOkAfter(first_ok, c.log, 1)
           /\ dl' = IF c.log = << >> THEN dl ELSE c.log[Len(c.log)]
    /\ UNCHANGED <<scraper, ex, ch, pc, essays, call, st, state_file, cc, par>>

\* cmd_build after the loop: the state is saved and the EPUB is built from
\* the two lists
BuildFinishCall(now) ==
    /\ build.pc = "loop"
    /\ build.done = Len(build.essays_list)
    /\ state_file' = StateDocument(state_essays, now)
    /\ build' = [build EXCEPT !.pc = "done", !.ret = 0]
    /\ UNCHANGED <<parserVars, call, state_essays, st, content_cache, last_saved, cc, par>>

\* cmd_build constructs its StateManager on the state file and its parser
\* on a scraper
InitBuild ==
    /\ ParserInit
    /\ scraper
    /\ call = NoFunction
    /\ state_file \in {NoStateFile} \cup {StateDocument(store, "2024-01-01T10:00:00") :
                                               store \in BuildStores \ {<< >>}}
    /\ state_essays = load(state_file)
    /\ st = NoStateCall
    /\ content_cache \in BuildCaches
    /\ last_saved = [id \in CacheIds |-> None]
    /\ cc = NoCacheCall
    /\ build = NoBuild
    /\ par = NoParsers

NextBuild ==
    \/ \E rebuild, force_refresh \in BOOLEAN,
          fetched_list \in {SubSeq(BuildListing, 1, n) :
                               n \in {m \in 0..MaxBuildEssays : m <= Len(BuildListing)}} :
           BuildStartCall(rebuild, force_refresh, fetched_list, "2024-01-02T10:00:00")
    \/ \E page \in {NoPage} \cup BuildPages, extracted \in ExtractedDates :
           BuildEssayCall(page, extracted)
    \/ BuildFinishCall("2024-01-02T10:00:00")

SpecBuild == InitBuild /\ [][NextBuild]_vars

(***************************************************************************)
(* Several ContentParser instances on one image cache directory            *)
(***************************************************************************)
\* the number of parser instances
NumParsers == 2

\* bound on the download_image calls of one instance
MaxParCalls == 2

\* the URLs the instances resolve: two images and a spacer
ParUrls == {UrlPhoto, UrlChart, UrlSpacer}

\* what the server returns for a URL, the same at every fetch
ServedBytes == [u \in ParUrls |-> IF u = UrlChart THEN ImageBytes(20, 20)
                                  ELSE ImageBytes(150, 150)]

\* an instance after __init__: its own empty memo, no call running.  got
\* holds, per URL, the bytes the instance fetched and accepted.
NewParser ==
    [pc |-> "idle", url |-> "", memo |-> << >>, got |-> << >>, img_data |-> NoData,
     ret |-> None, calls |-> 0]

\* instance p calls download_image(img_url): the tests that need neither
\* the disk nor the network
ParCall(p, img_url) ==
    /\ par[p].pc \in {"idle", "returned"}
    /\ par[p].calls < MaxParCalls
    /\ par' = [par EXCEPT ![p] =
                  [@ EXCEPT !.calls = @ + 1, !.url = img_url, !.img_data = NoData,
                            !.ret = None,
                            !.pc = IF ~scraper \/ img_url \in SkippedUrls THEN "returned"
                                   ELSE IF img_url \in DOMAIN par[p].memo THEN "exists"
                                   ELSE "fetch"]]
    /\ UNCHANGED <<parserVars, call, state_essays, st, state_file, content_cache,
                   last_saved, cc, build>>

\* cached_path.exists() in instance p
ParExists(p) ==
    /\ par[p].pc = "exists"
    /\ par' = [par EXCEPT ![p].pc = IF image_cache[par[p].memo[par[p].url]] # NoFile
                                    THEN "read" ELSE "fetch"]
    /\ UNCHANGED <<parserVars, call, state_essays, st, state_file, content_cache,
                   last_saved, cc, build>>

\* instance p opens the cached file, reads it and returns its bytes
ParRead(p) ==
    /\ par[p].pc = "read"
    /\ par' = [par EXCEPT ![p] =
                  [@ EXCEPT !.pc = "returned",
                            !.ret = <<par[p].memo[par[p].url],
                                      image_cache[par[p].memo[par[p].url]]>>]]
    /\ UNCHANGED <<parserVars, call, state_essays, st, state_file, content_cache,
                   last_saved, cc, build>>

\* instance p fetches the URL and validates the bytes
ParFetch(p, net) ==
    /\ par[p].pc = "fetch"
    /\ fetch_calls' = [fetch_calls EXCEPT ![par[p].url] = @ + 1]
    /\ par' = [par EXCEPT ![p] =
                  IF net.kind \in {"none", "empty"} \/ ~ImageAccepted(net)
                  THEN [@ EXCEPT !.pc = "returned"]
                  ELSE [@ EXCEPT !.pc = "open", !.img_data = net]]
    /\ UNCHANGED <<scraper, downloaded_images, image_cache, first_ok, dl, ex, ch, pc,
                   essays, call, state_essays, st, state_file, content_cache, last_saved,
                   cc, build>>

\* open(cache_path, 'wb') in instance p: the file exists and is empty
ParOpen(p) ==
    /\ par[p].pc = "open"
    /\ image_cache' = [image_cache EXCEPT ![FilenameOf[par[p].url]] = EmptyBytes]
    /\ par' = [par EXCEPT ![p].pc = "write"]
    /\ UNCHANGED <<scraper, downloaded_images, fetch_calls, first_ok, dl, ex, ch, pc,
                   essays, call, state_essays, st, state_file, content_cache, last_saved,
                   cc, build>>

\* f.write(img_data) and the close of the file in instance p, then the
\* memo entry and the return of (filename, img_data)
ParWrite(p) ==
    /\ par[p].pc = "write"
    /\ image_cache' = [image_cache EXCEPT ![FilenameOf[par[p].url]] = par[p].img_data]
    /\ par' = [par EXCEPT ![p] =
                  [@ EXCEPT !.pc = "returned",
                            !.memo = MemoPut(@, par[p].url, FilenameOf[par[p].url]),
                            !.got = MemoPut(@, par[p].url, par[p].img_data),
                            !.ret = <<FilenameOf[par[p].url], par[p].img_data>>]]
    /\ UNCHANGED <<scraper, downloaded_images, fetch_calls, first_ok, dl, ex, ch, pc,
                   essays, call, state_essays, st, state_file, content_cache, last_saved,
                   cc, build>>

\* NumParsers instances constructed on one scraper and an empty cache
\* directory
InitParallel ==
    /\ ParserInit
    /\ scraper
    /\ \A f \in Filenames : image_cache[f] = NoFile
    /\ call = NoFunction
    /\ state_essays = << >>
    /\ st = NoStateCall
    /\ state_file = NoStateFile
    /\ content_cache = EmptyCacheDir
    /\ last_saved = [id \in CacheIds |-> None]
    /\ cc = NoCacheCall
    /\ build = NoBuild
    /\ par = [p \in 1..NumParsers |-> NewParser]

\* the steps of the instances, interleaved in any order
NextParallel ==
    \E p \in 1..NumParsers :
        \/ \E img_url \in ParUrls : ParCall(p, img_url)
        \/ ParExists(p)
        \/ ParRead(p)
        \/ \E net \in {NoData} \cup {ServedBytes[u] : u \in {par[p].url} \cap ParUrls} :
               ParFetch(p, net)
        \/ ParOpen(p)
        \/ ParWrite(p)

SpecParallel == InitParallel /\ [][NextParallel]_vars

(***************************************************************************)
(* Claims about download_image                                             *)
(***************************************************************************)
\* the URLs of the model that contain a denylisted fragment in any letter case
DenylistFragments ==
    {"spacer.gif", "pixel.gif", "1x1.", "blank.gif", "trans_1x1.gif",
     "essays-hierarchical.gif", "rss-hierarchical.gif", "dot.gif",
     "bullet.gif", "clear.gif"}

DenylistedUrls ==
    {u \in AbsUrls : \E f \in DenylistFragments : Contains(Lower(u), f)}

\* C1: a call of download_image for a denylisted URL returns None and does
\* not invoke fetch_binary, so that no denylisted URL is ever fetched,
\* whatever the memo and the image cache directory hold.
C1_DenylistNeverFetched ==
    /\ \A u \in DenylistedUrls : fetch_calls[u] = 0
    /\ dl.url \in DenylistedUrls => dl.ret = None /\ ~dl.fetched

\* C1 witness: a parser with a scraper was called for the denylisted URL in
\* capitals while a file of its name lay in the cache directory and another
\* URL had been resolved.
C1_Witness ==
    /\ scraper
    /\ dl.url = UrlTrans
    /\ image_cache[FilenameOf[UrlTrans]] # NoFile
    /\ downloaded_images # << >>

\* C2 as stated: fetch_binary is invoked at most once per URL, whatever the
\* outcome of the first resolution.
C2_AtMostOneFetchPerUrl == \A u \in AbsUrls : fetch_calls[u] <= 1

\* C2 amended: once download_image has returned a pair for a URL, no later
\* call on this parser invokes fetch_binary for that URL.
C2_NoFetchAfterSuccess ==
    [][\A u \in AbsUrls : first_ok[u] # None => fetch_calls'[u] = fetch_calls[u]]_vars

\* C2 witness: a URL was fetched once and failed, fetched again and resolved,
\* and then asked for once more without a fetch.
C2_Witness ==
    \E u \in AbsUrls :
        /\ fetch_calls[u] = 2
        /\ first_ok[u] # None
        /\ dl.url = u /\ ~dl.fetched /\ dl.ret # None

\* C3: a download_image call for a URL that an earlier call resolved returns
\* the pair of that first resolution and does not invoke fetch_binary.
C3_SamePairNoRefetch ==
    [][\A u \in AbsUrls :
          (first_ok[u] # None /\ dl'.url = u) =>
              (dl'.ret = first_ok[u] /\ ~dl'.fetched)]_vars

\* C3 witness: a URL whose cache file held other bytes before the run was
\* resolved, and a later call for it returned from the memo.
C3_Witness ==
    \E u \in AbsUrls :
        /\ first_ok[u] # None
        /\ first_ok[u][2] # StaleBytes
        /\ dl.url = u /\ ~dl.fetched /\ dl.ret = first_ok[u]
        /\ fetch_calls[u] = 1

(***************************************************************************)
(* Claims about extract_main_content and build_chapter_html                *)
(***************************************************************************)
\* the file names that the markup refers to as images/<name>
ImageRefs(markup) == {f \in Filenames : Contains(markup, "images/" \o f)}

\* the file names of an images list
ImageNames(images) == {images[n][1] : n \in 1..Len(images)}

\* C4 as stated: the file names the returned markup refers to are the file
\* names of the returned images list.
C4_RefsEqualImages ==
    ex.doc # "" => ImageRefs(ex.markup) = ImageNames(ex.images)

\* C5: the images list extract_main_content returns holds no file name
\* twice, also when the content refers to one image URL several times.
C5_NoDuplicateFilenames ==
    \A i, j \in 1..Len(ex.images) : i # j => ex.images[i][1] # ex.images[j][1]

\* C5 witness: the first essay of a run referred to one URL twice, once
\* by a relative and once by an absolute src; the first was fetched and the
\* second came from the memo, and the images list has one entry.
C5_Witness ==
    /\ essays = 1
    /\ ex.doc = "images"
    /\ Len(ex.images) = 1
    /\ dl.url = UrlPhoto /\ ~dl.fetched /\ dl.ret # None
    /\ fetch_calls[UrlPhoto] = 1

\* the visible text of a chapter: the heading, the date and the body
ChapterTextLen(out) ==
    Len(Unescape(out.h1, 1, Len(out.h1))) + Len(Unescape(out.date, 1, Len(out.date)))
        + Len(StrippedText(out.body))

\* C6 as stated: build_chapter_html returns the rejection value when the
\* visible text of content_html without its wrapper tags is shorter than 100
\* characters, and no chapter it returns has fewer than 100 characters of
\* visible text.
C6_NoShortChapter ==
    pc = "built" =>
        /\ Len(StrippedText(StripWrappers(ch.content, 1))) < 100 => ch.out.rejected
        /\ ~ch.out.rejected => ChapterTextLen(ch.out) >= 100

\* the index of the first candidate paragraph that matches a related
\* marker, or one more than the number of candidates
FirstMarker(paragraphs) ==
    LET marked == {i \in 1..Len(paragraphs) : IsRelatedMarker(paragraphs[i])}
    IN  IF marked = {} THEN Len(paragraphs) + 1
        ELSE CHOOSE i \in marked : \A j \in marked : i <= j

\* a candidate paragraph that no rule of the loop or of the post-pass takes
\* for anything but prose
IsProse(para, title) == ~IsExcluded(para, title) /\ IsRealParagraph(Strip(para))

\* C7: in markup mode every paragraph of the container comes before the
\* first candidate that matches a related marker, so that the marker and
\* all later candidates are excluded, and every prose paragraph before the
\* marker is in the container, in source order.
C7_StickyRelatedSection ==
    (ex.doc # "" /\ ~ex.plain) =>
        LET m == FirstMarker(ex.paragraphs)
        IN  /\ \A n \in 1..Len(ex.kept) : ex.kept[n] < m
            /\ \A n \in 1..(Len(ex.kept) - 1) : ex.kept[n] < ex.kept[n + 1]
            /\ \A i \in 1..(m - 1) :
                   IsProse(ex.paragraphs[i], ex.title) =>
                       \E n \in 1..Len(ex.kept) : ex.kept[n] = i
            /\ ex.nodes[1].kids =
                   [n \in 1..Len(ex.kept) |-> Para(ex.paragraphs[ex.kept[n]])]

\* C7 witness: an essay with prose before a "Related:" line and two prose
\* paragraphs after it was extracted, and its container is not empty.
C7_Witness ==
    /\ ex.doc = "essay"
    /\ ex.kept # << >>
    /\ LET m == FirstMarker(ex.paragraphs)
       IN  /\ m + 2 <= Len(ex.paragraphs)
           /\ IsProse(ex.paragraphs[m + 1], ex.title)
           /\ IsProse(ex.paragraphs[m + 2], ex.title)
           /\ \E i \in 1..(m - 1) : IsProse(ex.paragraphs[i], ex.title)

\* the documents whose only content is the line YcLine
AdOnlyDocs == {"yc_table", "yc_plain"}

\* the container holds no element
ContainerIsEmpty(nodes) == \A k \in 1..Len(nodes[1].kids) : nodes[1].kids[k].tag = "text"

\* C8 as stated: for a document whose only content is the line YcLine the
\* container is empty, and build_chapter_html on the result returns the
\* rejection value.
C8_AdOnlyEmptyContainer ==
    ex.doc \in AdOnlyDocs =>
        /\ ContainerIsEmpty(ex.nodes)
        /\ pc = "built" => ch.out.rejected

\* C8 amended: for such a document given as markup the container is empty;
\* given as plain text the container holds one paragraph, the line; in both
\* cases build_chapter_html on the result returns the rejection value.
C8_AdOnlyRejected ==
    ex.doc \in AdOnlyDocs =>
        /\ ~ex.plain =>
               ContainerIsEmpty(ex.nodes) /\ ex.markup = ContainerOpen \o "</div>"
        /\ ex.plain =>
               /\ Pick(ex.nodes[1].kids,
                       {k \in 1..Len(ex.nodes[1].kids) : IsElement(ex.nodes[1].kids[k])})
                      = <<Para(YcLine)>>
               /\ ex.markup = ContainerOpen \o "\n<p>" \o YcLine \o "</p>\n</div>"
        /\ pc = "built" => ch.content = ex.nodes /\ ch.out.rejected

\* C8 witness: the markup document with the line in a table was extracted
\* and build_chapter_html was called on the result.
C8_Witness ==
    /\ ex.doc = "yc_table"
    /\ pc = "built"
    /\ ch.content = ex.nodes
    /\ ch.out = Rejection

(***************************************************************************)
(* Further claims about download_image                                     *)
(***************************************************************************)
\* C9: when fetch_binary returned a well-formed image, download_image
\* returns None exactly when width < 50 or height < 50 or (width < 150 and
\* height < 30) or (height < 150 and width < 30).
C9_RejectedIffSmall ==
    (dl.fetched /\ dl.net.kind = "img") =>
        (dl.ret = None <=>
            \/ dl.net.w < 50
            \/ dl.net.h < 50
            \/ (dl.net.w < 150 /\ dl.net.h < 30)
            \/ (dl.net.h < 150 /\ dl.net.w < 30))

\* C9 witness: a 20x20 image at a URL that is not denylisted was fetched
\* and rejected.
C9_Witness ==
    /\ dl.url \notin DenylistedUrls
    /\ dl.fetched
    /\ dl.net = ImageBytes(20, 20)
    /\ dl.ret = None

\* the extension the claim gives a URL: by its suffix in lower case
SuffixExtension(u) ==
    LET n == Len(u)
        last4 == Lower(SubSeq(u, n - 3, n))
        last5 == Lower(SubSeq(u, n - 4, n))
    IN  CASE last4 = ".png" -> ".png"
          [] last4 = ".gif" -> ".gif"
          [] last5 = ".webp" -> ".webp"
          [] OTHER -> ".jpg"

\* C10: the file name download_image returns is the hex MD5 of the URL
\* followed by .png, .gif or .webp when the URL ends so in any letter case
\* and by .jpg otherwise, and it is the name the first resolution of that
\* URL returned.
C10_FilenameFromUrl ==
    dl.ret # None =>
        /\ dl.ret[1] = md5_hexdigest(dl.url) \o SuffixExtension(dl.url)
        /\ dl.ret[1] = first_ok[dl.url][1]

\* C10 witness: the URL ending in .GIF was resolved twice, once from the
\* network and once from the memo.
C10_Witness ==
    /\ dl.url = UrlChart
    /\ dl.ret # None
    /\ ~dl.fetched
    /\ fetch_calls[UrlChart] = 1

(***************************************************************************)
(* Claims about escape_html                                                *)
(***************************************************************************)
\* the entity of one character, or the character itself
EntityOf(c) ==
    CASE c = "&" -> "&amp;"
      [] c = "<" -> "&lt;"
      [] c = ">" -> "&gt;"
      [] c = "\"" -> "&quot;"
      [] c = "'" -> "&#39;"
      [] OTHER -> c

\* the substitution of every character of s[lo..hi] by EntityOf, each
\* character of the input taken once
RECURSIVE Charwise(_, _, _)
Charwise(s, lo, hi) ==
    IF lo > hi THEN ""
    ELSE IF lo = hi THEN EntityOf(CharAt(s, lo))
    ELSE LET mid == (lo + hi) \div 2
         IN  Charwise(s, lo, mid) \o Charwise(s, mid + 1, hi)

\* C11: escape_html returns the character-by-character substitution of its
\* input: each of & < > " ' becomes its entity, every other character
\* stays, and no entity written by one replacement is escaped by a later one.
C11_EscapeIsCharwise ==
    (call.fn = "escape_html" /\ call.done) =>
        call.ret = Charwise(call.arg, 1, Len(call.arg))

\* C11 witness: a text with an ampersand, a quote and a plain character was
\* escaped.
C11_Witness ==
    /\ call.fn = "escape_html" /\ call.done
    /\ call.arg = "&\"a"
    /\ call.ret = "&amp;&quot;a"

(***************************************************************************)
(* Claims about parse_date_string                                          *)
(***************************************************************************)
\* the two digits of the k-th month
TwoDigits(k) == IF k < 10 THEN "0" \o ToString(k) ELSE ToString(k)

\* the four-digit years among the parts of the labels
FourDigitYears == {y \in LabelYears : Len(y) = 4}

\* the labels of the form "<Month> <Year>", with ", rev. <Month> <Year>" or
\* without it, each with the ISO date of its first month and year
MonthYearLabels ==
    {[label |-> MonthSpellings[k] \o " " \o y \o z, iso |-> y \o "-" \o TwoDigits(k) \o "-01"] :
        k \in 1..12, y \in FourDigitYears, z \in {"", ", rev. May 2009"}}

\* the bare years from 1900 to 2099, each with the ISO date of its January
BareYearLabels ==
    {[label |-> y, iso |-> y \o "-01-01"] : y \in {"2023", "1993", "1900", "2099"}}

\* C12: a label "<Month> <Year>", with or without ", rev. <Month> <Year>",
\* gives the ISO date of the first day of its first month, a bare year from
\* 1900 to 2099 gives the first of January of that year, the label comes
\* back as second component, and every ISO date returned ends in day 01.
C12_MonthYearToIso ==
    (call.fn = "parse_date_string" /\ call.done) =>
        /\ \A e \in MonthYearLabels \cup BareYearLabels :
               call.arg = e.label => call.ret = <<e.iso, e.label>>
        /\ call.ret[1] # NoDate =>
               /\ Len(call.ret[1]) = 10
               /\ EndsWith(call.ret[1], "-01")
               /\ \A k \in {1, 2, 3, 4, 6, 7} : IsDigitChar(CharAt(call.ret[1], k))
               /\ CharAt(call.ret[1], 5) = "-"

\* C12 witness: "July 2023, rev. May 2009" was parsed to 2023-07-01.
C12_Witness ==
    /\ call.fn = "parse_date_string" /\ call.done
    /\ call.arg = "July 2023, rev. May 2009"
    /\ call.ret = <<"2023-07-01", "July 2023, rev. May 2009">>

\* the label holds no four digits in a row
NoFourDigits(label) ==
    ~\E i \in 1..(Len(label) - 3) : \A k \in i..(i + 3) : IsDigitChar(CharAt(label, k))

WithSrc(soup) ==
    LET paths == ImgPaths(soup, 1)
    IN  IndicesIn(paths, {m \in 1..Len(paths) : NodeAt(soup, paths[m]).src # ""})

\* the download_image calls of log that returned a pair
Resolved(log) == {m \in 1..Len(log) : log[m].ret # None}

\* C15: process_images calls download_image once for each image that has a
\* src, in document order, whatever the earlier calls returned; an image
\* whose call returned None is removed from the content and adds nothing to
\* the images list; the text of the essay is extracted all the same.
C15_FailedImageDropped ==
    (ex.doc # "" /\ ~ex.plain) =>
        LET soup == ContentSoups[ex.doc]
            paths == ImgPaths(soup, 1)
            idx == WithSrc(soup)
            left == ImgPaths(ex.soup, 1)
        IN  /\ Len(ex.log) = Len(idx)
            /\ \A m \in 1..Len(idx) : ex.log[m].url = ImgUrl(soup, paths[idx[m]])
            /\ Len(left) = Cardinality(Resolved(ex.log))
            /\ \A n \in 1..Len(left) :
                   \E m \in Resolved(ex.log) :
                       NodeAt(ex.soup, left[n]).src = "images/" \o ex.log[m].ret[1]
            /\ ImageNames(ex.images) = {ex.log[m].ret[1] : m \in Resolved(ex.log)}
            /\ ex.doc = "images" => ex.paragraphs = <<ProseA>>
            /\ ex.doc = "charts" => ex.paragraphs = <<ProseC>>

\* C15 witness: the first image of an essay could not be fetched and was
\* removed, the second was resolved, and the paragraph was extracted.
C15_Witness ==
    /\ ex.doc = "images"
    /\ Len(ex.log) = 2
    /\ ex.log[1].fetched /\ ex.log[1].ret = None
    /\ ex.log[2].ret # None
    /\ Len(ImgPaths(ex.soup, 1)) = 1
    /\ Len(ex.images) = 1
    /\ ex.paragraphs = <<ProseA>>

\* C16: of the tables with more than 500 characters of visible text the
\* longest is the main content, the first in document order among equals;
\* when no table has more than 500 characters the whole body is.
C16_LongestFirstOfTies ==
    /\ ex.doc = "tie" => ex.paragraphs = <<ProseA, ProseB, ProseC, ProseD>>
    /\ ex.doc = "tie_rev" => ex.paragraphs = <<ProseB, ProseA, ProseD, ProseC>>
    /\ ex.doc = "longer_last" => ex.paragraphs = <<ProseE, ProseD, ProseC, ProseB, ProseA>>
    /\ ex.doc = "at_limit" =>
           ex.paragraphs = <<ProseE \o "\n" \o ProseA, ProseB, ProseC, SubSeq(ProseD, 1, 104)>>
    /\ ex.doc = "links" => ex.paragraphs = <<ProseB>>

\* C16 witness: two tables of 527 characters each; the first one was taken.
C16_Witness ==
    /\ ex.doc = "tie"
    /\ Len(StrippedText(<<TableAB>>)) = Len(StrippedText(<<TableBA>>))
    /\ Len(StrippedText(<<TableAB>>)) > 500
    /\ ex.paragraphs[1] = ProseA

\* the documents that do not begin with "<" after trimming
PlainDocs == {"yc_plain", "plain_code", "plain_long", "empty", "plain_markup"}

\* C17: for an input that does not begin with "<" after trimming, the empty
\* input included, extract_main_content returns the container of
\* convert_plaintext_to_html and no image, calls download_image for nothing
\* and leaves the memo, the cache directory and the fetch counts as they were.
C17_PlainTextBypass ==
    [][(ex'.doc \in PlainDocs /\ essays' = essays + 1) =>
           /\ ex'.plain
           /\ ex'.markup = convert_plaintext_to_html(Docs[ex'.doc].html)
           /\ ex'.images = << >>
           /\ ex'.log = << >>
           /\ UNCHANGED <<downloaded_images, image_cache, fetch_calls, first_ok, dl>>]_vars

\* C17 witness: a plain text that names navigation words and an image tag
\* came back with both in its paragraphs, and nothing was fetched.
C17_Witness ==
    /\ ex.doc = "plain_markup"
    /\ ex.plain
    /\ ex.markup = "<div class=\"essay-content\">\n<p>Home | Essays | RSS</p>\n"
                       \o "<p>Not markup: &lt;img src=&quot;photo.png&quot;&gt; stays text.</p>\n</div>"
    /\ ex.images = << >>
    /\ TotalFetches = 0

(***************************************************************************)
(* Claims about text_to_paragraphs                                         *)
(***************************************************************************)
\* the clean forms of pieces, in order, of those whose length is in lens
RECURSIVE CleanOfLength(_, _, _)
CleanOfLength(pieces, k, lens) ==
    IF k > Len(pieces) THEN << >>
    ELSE (IF Len(pieces[k].clean) \in lens THEN <<pieces[k].clean>> ELSE << >>)
             \o CleanOfLength(pieces, k + 1, lens)

\* C18 as stated: the candidates between blank lines come back trimmed, in
\* source order, without those shorter than 10 characters: one of 10
\* characters is kept.
C18_KeptFromTen ==
    (call.fn = "text_to_paragraphs" /\ call.done) =>
        call.ret = CleanOfLength(call.arg.pieces, 1, 10..100)

\* C18 amended: the candidates between blank lines come back trimmed and
\* with each run of blanks and tabs made one space, in source order, without
\* those of 10 characters or fewer: one of 11 characters is the shortest kept.
C18_KeptFromEleven ==
    (call.fn = "text_to_paragraphs" /\ call.done) =>
        call.ret = CleanOfLength(call.arg.pieces, 1, 11..100)

\* C18 witness: of the candidates of 10, 11 and (once its blanks are one
\* space) 10 characters the one of 11 came back alone.
C18_Witness ==
    /\ call.fn = "text_to_paragraphs" /\ call.done
    /\ call.arg.text = "1234567890\n\n12345678901\n \t\nten  chars."
    /\ call.ret = <<"12345678901">>

(***************************************************************************)
(* Claims about StateManager                                               *)
(***************************************************************************)
\* the ids of the essays of a store
IdsOf(store) == {store[k].essay_id : k \in 1..Len(store)}

\* the essay of a store with the given id
EssayOf(store, essay_id) == store[IndexOf(store, essay_id)]

\* C19: update_essay on a known id replaces title and url and leaves read,
\* date and raw_date_str as they were when the argument is omitted; on an
\* unknown id it creates the essay, unread unless read is given; no other
\* essay changes, so that a call without read leaves every read essay read.
C19_UpdateKeepsOmitted ==
    [][st'.name = "update_essay" /\ st'.n = st.n + 1 =>
           LET a == st'.args
               known == a.essay_id \in IdsOf(state_essays)
               new == EssayOf(state_essays', a.essay_id)
               old == EssayOf(state_essays, a.essay_id)
           IN  /\ a.essay_id \in IdsOf(state_essays')
               /\ new.title = a.title /\ new.url = a.url
               /\ known =>
                      /\ IdsOf(state_essays') = IdsOf(state_essays)
                      /\ a.read = "None" => new.read = old.read
                      /\ a.read # "None" => new.read = (a.read = "True")
                      /\ a.date = NoString => new.date = old.date
                      /\ a.date # NoString => new.date = a.date
                      /\ a.raw_date_str = NoString => new.raw_date_str = old.raw_date_str
                      /\ a.raw_date_str # NoString => new.raw_date_str = a.raw_date_str
               /\ ~known =>
                      /\ IdsOf(state_essays') = IdsOf(state_essays) \cup {a.essay_id}
                      /\ new.read = (a.read = "True")
                      /\ new.date = a.date /\ new.raw_date_str = a.raw_date_str
               /\ \A id \in IdsOf(state_essays) \ {a.essay_id} :
                      EssayOf(state_essays', id) = EssayOf(state_essays, id)
               /\ a.read = "None" =>
                      \A id \in IdsOf(state_essays) :
                          EssayOf(state_essays, id).read => EssayOf(state_essays', id).read]_vars

\* C19 witness: an essay that was read got a new title and url from a call
\* without read, date and raw_date_str, and kept its flag and its dates.
C19_Witness ==
    /\ st.name = "update_essay"
    /\ st.args.essay_id = "a.html"
    /\ st.args.read = "None" /\ st.args.date = NoString /\ st.args.raw_date_str = NoString
    /\ st.args.title = "New Title"
    /\ LET e == EssayOf(state_essays, "a.html")
       IN  /\ e.title = "New Title" /\ e.url = "http://paulgraham.com/new.html"
           /\ e.read /\ e.date = "2023-07-01" /\ e.raw_date_str = "July 2023"
           /\ e.last_seen = "2024-01-02T10:00:00"

C21_SavedStateIsLoaded ==
    [][/\ st'.name = "save" /\ st'.n = st.n + 1 => state_essays' = state_essays
       /\ st.name = "save" /\ st'.name = "__init__" /\ st'.n = st.n + 1 =>
              /\ IdsOf(state_essays') = IdsOf(state_essays)
              /\ Len(state_essays') = Len(state_essays)
              /\ \A id \in IdsOf(state_essays) :
                     LET new == EssayOf(state_essays', id)
                         old == EssayOf(state_essays, id)
                     IN  /\ new.title = old.title /\ new.url = old.url
                         /\ new.date = old.date /\ new.raw_date_str = old.raw_date_str
                         /\ new.read = old.read /\ new.last_seen = old.last_seen]_vars

\* C21 witness: the state was saved in this run, and the instance
\* constructed afterwards holds both essays, one unread and without a
\* date, one read and with its date.
C21_Witness ==
    /\ st.name = "__init__" /\ st.n = 2
    /\ state_file.kind = "json"
    /\ state_file.last_update = "2024-01-02T10:00:00"
    /\ IdsOf(state_essays) = {"a.html", "b.html"}
    /\ ~EssayOf(state_essays, "b.html").read
    /\ EssayOf(state_essays, "b.html").date = NoString
    /\ EssayOf(state_essays, "a.html").read
    /\ EssayOf(state_essays, "a.html").date = "2023-07-01"

(***************************************************************************)
(* Claims about remove_navigation                                          *)
(***************************************************************************)
\* the number of places of the text where a navigation keyword starts
KeywordOccurrences(text) ==
    Cardinality({<<kw, i>> \in nav_keywords \X (1..Len(text)) :
                    i + Len(kw) - 1 <= Len(text) /\ SubSeq(text, i, i + Len(kw) - 1) = kw})

\* the number of navigation keywords that occur in the text
KeywordsPresent(text) == Cardinality({kw \in nav_keywords : Contains(text, kw)})

\* the number of links of the table, and of those whose text is a keyword
LinkCount(table) == Len(AllLinks(table.kids, 1))

ExactLinkCount(table) ==
    LET links == AllLinks(table.kids, 1)
    IN  Cardinality({j \in 1..Len(links) : Lower(Strip(links[j].s)) \in nav_keywords})

\* the rule on the links: 5 or more, 3 or more of them a keyword
LinkRule(table) == LinkCount(table) >= 5 /\ ExactLinkCount(table) >= 3

\* the tables directly inside a table
InnerTables(table) == {j \in 1..Len(table.kids) : table.kids[j].tag = "table"}

\* the table of the call is gone; its inner table j is gone
OuterDeleted == call.ret = << >>

InnerDeleted(j) ==
    \/ OuterDeleted
    \/ \A m \in 1..Len(call.ret[1].kids) : call.ret[1].kids[m] # call.arg.body[1].kids[j]

\* C22 as stated: a table is deleted if and only if its text is under 500
\* characters and has 3 or more occurrences of navigation keywords, or the
\* rule on the links holds.
C22_DeletedIffOccurrences ==
    call.fn = "remove_navigation" /\ call.done =>
        LET table == call.arg.body[1]
            Rule(t) ==
                LET text == Lower(StrippedText(<<t>>))
                IN  \/ Len(text) < 500 /\ KeywordOccurrences(text) >= 3
                    \/ LinkRule(t)
        IN  /\ OuterDeleted <=> Rule(table)
            /\ \A j \in InnerTables(table) : InnerDeleted(j) <=> Rule(table.kids[j])

\* C22: a table is deleted if and only if its text is under 500 characters
\* and 3 or more different navigation keywords occur in it, or the rule on
\* the links holds, or it is inside a table that is deleted.
C22_DeletedIffKeywords ==
    call.fn = "remove_navigation" /\ call.done =>
        LET table == call.arg.body[1]
            Rule(t) ==
                LET text == Lower(StrippedText(<<t>>))
                IN  \/ Len(text) < 500 /\ KeywordsPresent(text) >= 3
                    \/ LinkRule(t)
        IN  /\ OuterDeleted <=> Rule(table)
            /\ \A j \in InnerTables(table) :
                   InnerDeleted(j) <=> (Rule(table.kids[j]) \/ OuterDeleted)

\* C22 witness: a table of 500 characters and more with 6 links, 3 of them
\* keywords, was deleted.
C22_Witness ==
    /\ call.fn = "remove_navigation" /\ call.done
    /\ Len(StrippedText(call.arg.body)) >= 500
    /\ LinkCount(call.arg.body[1]) = 6
    /\ ExactLinkCount(call.arg.body[1]) = 3
    /\ call.ret = << >>

(***************************************************************************)
(* Claims about the paragraphs of extract_main_content                     *)
(***************************************************************************)
\* the text holds one of the words, in any case of its letters
HoldsOneOf(text, words) ==
    \E low \in {Strip(Lower(text))} : \E w \in words : Contains(low, w)

\* the exclusion rules, one by one
RuleTitle(para, title) == title # "" /\ Strip(Lower(para)) = Strip(Lower(title))

RuleNavigation(para) == HoldsOneOf(para, nav_words) /\ Len(para) < 100

RuleAd(para) == HoldsOneOf(para, yc_ad_phrases) /\ Len(para) < 50

RulePunctuation(para) == Strip(para) \in {".", ","}

RuleFooter(para) ==
    /\ Len(para) < 60 /\ Contains(para, ":") /\ Count(para, " ") < 8
    /\ HoldsOneOf(para, {" re: ", "translation"})

RuleDate(para) == MatchesMonthYear(Strip(para)) \/ MatchesYear(Strip(para))

MatchesRule(para, title) ==
    \/ RuleTitle(para, title) \/ RuleNavigation(para) \/ RuleAd(para)
    \/ RulePunctuation(para) \/ RuleFooter(para) \/ RuleDate(para)

\* the indices of S in ascending order
RECURSIVE Ascending(_)
Ascending(S) ==
    IF S = {} THEN << >>
    ELSE LET least == CHOOSE i \in S : \A j \in S : i <= j
         IN  <<least>> \o Ascending(S \ {least})

\* the candidates that come before the first related marker and match no
\* exclusion rule, in source order, for the candidate lists and titles of
\* the documents of the model (@@ gives the table as an explicit function)
BeforeMarkerUnexcluded ==
    [key \in {<<ContainerResults[k].paragraphs, k[2]>> : k \in DOMAIN ContainerResults} |->
        Ascending({i \in 1..(FirstMarker(key[1]) - 1) : ~MatchesRule(key[1][i], key[2])})]
        @@ << >>

\* C23: in markup mode the paragraphs emitted before the post-pass are, in
\* source order and each once, the candidates that come before the first
\* related marker and match no exclusion rule; the paragraphs of the
\* container hold the text of their candidates unchanged.
C23_EmittedIsFilteredSubsequence ==
    (ex.doc # "" /\ ~ex.plain) =>
        /\ ex.emitted = BeforeMarkerUnexcluded[<<ex.paragraphs, ex.title>>]
        /\ \A n \in 1..Len(ex.kept) :
               /\ \E m \in 1..Len(ex.emitted) : ex.emitted[m] = ex.kept[n]
               /\ ex.nodes[1].kids[n].tag = "p"
               /\ ex.nodes[1].kids[n].s = ex.paragraphs[ex.kept[n]]

\* C23 witness: of the candidates of a document a title, two dates, a
\* navigation line, an ad line and a footer line were excluded, and a long
\* line with a navigation word, a long line with an ad phrase and a
\* sentence that starts with a date were emitted between the prose.
C23_Witness ==
    /\ ex.doc = "filters" /\ ex.title = EssayTitle
    /\ Len(ex.paragraphs) = 14
    /\ RuleTitle(ex.paragraphs[1], ex.title)
    /\ RuleDate(ex.paragraphs[2]) /\ RuleDate(ex.paragraphs[3])
    /\ RuleNavigation(ex.paragraphs[5])
    /\ HoldsOneOf(ex.paragraphs[6], nav_words)
    /\ RuleAd(ex.paragraphs[7])
    /\ HoldsOneOf(ex.paragraphs[8], yc_ad_phrases)
    /\ RuleFooter(ex.paragraphs[9])
    /\ ex.emitted = <<4, 6, 8, 10, 11, 12, 13, 14>>

\* the stripped text of the n-th emitted paragraph
EmittedText(n) == Strip(ex.paragraphs[ex.emitted[n]])

\* a paragraph the backward scan stops at: longer than 60 characters, or
\* longer than 30 and ending in a period
StopsScan(text) == Len(text) > 60 \/ (Len(text) > 30 /\ EndsWith(text, "."))

\* C24: the post-pass removes a run of paragraphs at the end of the emitted
\* sequence and nothing else, and the last emitted paragraph that is longer
\* than 60 characters, or longer than 30 and ending in a period, is kept
\* with every paragraph before it.
C24_OnlyTrailingRunRemoved ==
    (ex.doc # "" /\ ~ex.plain) =>
        /\ Len(ex.kept) <= Len(ex.emitted)
        /\ ex.kept = SubSeq(ex.emitted, 1, Len(ex.kept))
        /\ \A n \in 1..Len(ex.emitted) : StopsScan(EmittedText(n)) => n <= Len(ex.kept)

\* C24 witness: two short paragraphs were removed after a sentence of 32
\* characters that ends in a period and reads like a title; the sentence
\* and the short title before it were kept.
C24_Witness ==
    /\ ex.doc = "trailing"
    /\ Len(ex.emitted) = 8 /\ Len(ex.kept) = 6
    /\ EmittedText(6) = "The Other Road Ahead Considered."
    /\ StopsScan(EmittedText(6))
    /\ ~StopsScan(EmittedText(5)) /\ Len(EmittedText(5)) < 40

(***************************************************************************)
(* Claims about convert_plaintext_to_html                                  *)
(***************************************************************************)
\* what a line is to the converter: code, blank or text
LineKind(line) ==
    IF /\ SubSeq(line, 1, IF Len(line) < 2 THEN Len(line) ELSE 2) = "  "
       /\ \E i \in 1..Len(line) :
              \/ CharAt(line, i) \in {";", "("}
              \/ i + 2 <= Len(line) /\ Lower(SubSeq(line, i, i + 2)) = "def"
    THEN "code"
    ELSE IF \A i \in 1..Len(line) : CharAt(line, i) \in {" ", "\t", "\r"} THEN "blank"
    ELSE "text"

\* the first lines of the runs: a code line or a text line that follows no
\* line of its kind
RunStarts(lines) ==
    {i \in 1..Len(lines) :
        /\ LineKind(lines[i]) # "blank"
        /\ i = 1 \/ LineKind(lines[i - 1]) # LineKind(lines[i])}

\* the last line of the run that starts at line i
RunEnd(lines, i) ==
    CHOOSE j \in i..Len(lines) :
        /\ \A m \in i..j : LineKind(lines[m]) = LineKind(lines[i])
        /\ j = Len(lines) \/ LineKind(lines[j + 1]) # LineKind(lines[i])

\* the parts of a code block, and the part of a paragraph, for lines i..j
RECURSIVE CodeLines(_, _, _)
CodeLines(lines, i, j) ==
    IF i > j THEN << >> ELSE <<Charwise(lines[i], 1, Len(lines[i])), "\n">> \o CodeLines(lines, i + 1, j)

RECURSIVE ParagraphText(_, _, _)
ParagraphText(lines, i, j) ==
    LET t == Strip(lines[i])
        line == Charwise(t, 1, Len(t))
    IN  IF i = j THEN line ELSE line \o " " \o ParagraphText(lines, i + 1, j)

\* the blocks of the runs that start in S, in the order of the lines
RECURSIVE BlocksOf(_, _)
BlocksOf(lines, S) ==
    IF S = {} THEN << >>
    ELSE LET i == CHOOSE k \in S : \A m \in S : k <= m
             j == RunEnd(lines, i)
         IN  (IF LineKind(lines[i]) = "code"
              THEN <<"<pre><code>">> \o CodeLines(lines, i, j) \o <<"</code></pre>">>
              ELSE <<"<p>" \o ParagraphText(lines, i, j) \o "</p>">>)
                 \o BlocksOf(lines, S \ {i})

\* C25: the converter writes, inside the container and in the order of the
\* lines, one code block for each run of code lines and one paragraph for
\* each run of text lines that no blank line and no code line interrupts:
\* every block is closed before the next one opens, every text line is in
\* exactly one paragraph, and no paragraph is empty.
C25_BlocksFollowRuns ==
    call.fn = "convert_plaintext_to_html" /\ call.done =>
        LET lines == call.arg.lines
            parts == call.ret.parts
        IN  /\ parts = <<"<div class=\"essay-content\">">>
                           \o BlocksOf(lines, RunStarts(lines)) \o <<"</div>">>
            /\ \A k \in 1..Len(parts) : parts[k] # "<p></p>"
            /\ \A k \in 1..Len(parts) :
                   parts[k] = "<pre><code>" =>
                       \E m \in (k + 1)..Len(parts) :
                           /\ parts[m] = "</code></pre>"
                           /\ \A n \in (k + 1)..(m - 1) :
                                  ~StartsWith(parts[n], "<p>") /\ parts[n] # "<pre><code>"
            /\ call.ret.html = JoinWith(parts, "\n", 1)

\* C25 witness: a text line, a code line and a text line gave a paragraph,
\* a code block and a paragraph, in that order.
C25_Witness ==
    /\ call.fn = "convert_plaintext_to_html" /\ call.done
    /\ call.arg.lines = <<"a < b & c", "  undefined <b>", "Plain words.">>
    /\ call.ret.parts =
           <<"<div class=\"essay-content\">", "<p>a &lt; b &amp; c</p>", "<pre><code>",
             "  undefined &lt;b&gt;", "\n", "</code></pre>", "<p>Plain words.</p>", "</div>">>

(***************************************************************************)
(* Frame and dimension claims about download_image                         *)
(***************************************************************************)
\* C28: a download_image call that returns None leaves the memo and the
\* image cache directory as they were: a denylisted URL, a parser without
\* scraper, a failed fetch, bytes that do not decode and an image of
\* rejected dimensions change neither.
C28_FailureChangesNothing ==
    [][dl'.ret = None =>
           /\ downloaded_images' = downloaded_images
           /\ image_cache' = image_cache]_vars

\* C28 witness: after a successful resolution had filled the memo, bytes
\* that do not decode were fetched for another URL and the call returned
\* None; the memo holds the one URL and no file of the other URL exists.
C28_Witness ==
    /\ dl.ret = None /\ dl.fetched /\ dl.net.kind = "junk"
    /\ DOMAIN downloaded_images = {UrlPhoto}
    /\ dl.url = UrlChart
    /\ image_cache[FilenameOf[UrlChart]] = NoFile
    /\ image_cache[FilenameOf[UrlPhoto]] = ImageBytes(150, 150)
    /\ fetch_calls[UrlPhoto] = 1

\* C29: every image the button rule describes has a width or a height under
\* 50, so that a fetched image is rejected exactly when its width or its
\* height is under 50.
C29_ButtonRuleNeverDecides ==
    (dl.fetched /\ dl.net.kind = "img") =>
        /\ ((dl.net.w < 150 /\ dl.net.h < 30) \/ (dl.net.h < 150 /\ dl.net.w < 30)) =>
               (dl.net.w < 50 \/ dl.net.h < 50)
        /\ dl.ret = None <=> (dl.net.w < 50 \/ dl.net.h < 50)
        /\ LooksLikeButton(dl.net.w, dl.net.h) => TooSmall(dl.net.w, dl.net.h)

\* C29 witness: an image of 140 by 29, which the button rule describes, was
\* fetched and rejected; its height is under 50.
C29_Witness ==
    /\ dl.fetched /\ dl.net = ImageBytes(140, 29)
    /\ LooksLikeButton(140, 29) /\ TooSmall(140, 29)
    /\ dl.ret = None

(***************************************************************************)
(* Claims about ContentCache                                               *)
(***************************************************************************)
\* C30: load_essay_content(id) returns the (content_html, images) last saved
\* under that id, images and their order preserved, and None for an id that
\* was never saved or whose file was cleared since.
C30_LoadReturnsLastSaved ==
    cc.name = "load_essay_content" => cc.ret = last_saved[cc.essay_id]

\* what load_essay_content returns when the ids of the run have different
\* cache files: the content last saved under the id
LoadWithoutCollision ==
    (cc.name = "load_essay_content"
        /\ \A id \in CacheIds \ {cc.essay_id} :
               last_saved[id] # None => get_cache_path(id) # get_cache_path(cc.essay_id))
    => cc.ret = last_saved[cc.essay_id]

(***************************************************************************)
(* Claims about cmd_build                                                  *)
(***************************************************************************)
\* the read and unread lists hold, in order, the essays whose outcome names
\* that list, and no essay is on both
ListsMatchOutcomes ==
    LET Ids(list) == [k \in 1..Len(list) |-> list[k].essay_id]
        On(name) == LET Named(o) == o.list = name
                    IN  SelectSeq(build.outcomes, Named)
        IdsOn(name) == [k \in 1..Len(On(name)) |-> On(name)[k].essay_id]
    IN  /\ Ids(build.read_essays) = IdsOn("read")
        /\ Ids(build.unread_essays) = IdsOn("unread")
        /\ \A j \in 1..Len(build.read_essays), k \in 1..Len(build.unread_essays) :
               build.read_essays[j].essay_id # build.unread_essays[k].essay_id

\* every pass of the loop has an outcome, and a finished loop has passed
\* over every essay of the list
LoopContinues ==
    /\ Len(build.outcomes) = build.done
    /\ \A k \in 1..build.done : build.outcomes[k].essay_id = build.essays_list[k].id
    /\ (build.pc = "done" /\ build.ret = 0) => build.done = Len(build.essays_list)

\* C26 as stated: an essay is skipped exactly when its page fetch failed or
\* build_chapter_html rejected it; every other essay is on the list of its
\* read flag, and the loop goes on to the remaining essays.
C26_SkippedIffFailedOrRejected ==
    /\ \A k \in 1..Len(build.outcomes) :
           LET o == build.outcomes[k]
           IN  /\ o.list = "none" <=> (o.fetch = "failed" \/ o.chapter = "rejected")
               /\ o.list # "none" => o.list = (IF o.read THEN "read" ELSE "unread")
    /\ ListsMatchOutcomes
    /\ LoopContinues

\* C26, amended: an essay is skipped exactly when it has no cached content
\* in rebuild mode (no fetch is made), when its page fetch failed, or when
\* build_chapter_html rejected its content; every other essay is on the
\* list of its read flag and on no other, and the loop goes on to the
\* remaining essays.
C26_SkippedIffNoContentOrRejected ==
    /\ \A k \in 1..Len(build.outcomes) :
           LET o == build.outcomes[k]
           IN  /\ o.list = "none" <=>
                      \/ build.rebuild_mode /\ ~o.cached
                      \/ o.fetch = "failed"
                      \/ o.chapter = "rejected"
               /\ (build.rebuild_mode /\ ~o.cached) => o.fetch = "none" /\ o.chapter = "none"
               /\ o.list # "none" => o.list = (IF o.read THEN "read" ELSE "unread")
    /\ ListsMatchOutcomes
    /\ LoopContinues

\* C26 witness: a rebuild has passed over both essays; the first, a read
\* essay without cached content, was skipped without a fetch, and the
\* second entered the unread list.
C26_Witness ==
    /\ build.pc = "done" /\ build.ret = 0 /\ build.rebuild_mode
    /\ Len(build.outcomes) = 2
    /\ build.outcomes[1].list = "none" /\ ~build.outcomes[1].cached
    /\ build.outcomes[1].fetch = "none" /\ build.outcomes[1].read
    /\ build.outcomes[2].list = "unread" /\ build.outcomes[2].cached
    /\ Len(build.unread_essays) = 1 /\ build.read_essays = << >>
    /\ build.unread_essays[1].essay_id = "acl1.txt"

(***************************************************************************)
(* Claims about concurrent parsers                                         *)
(***************************************************************************)
\* instance p returns a pair in this step
ParReturnsPair(p) ==
    /\ par[p].pc # "returned"
    /\ par'[p].pc = "returned"
    /\ par'[p].ret # None

\* C27: under every interleaving, the (filename, bytes) an instance returns
\* for a URL holds the bytes that instance fetched for the URL, which are
\* the bytes of the cache file of that name when it returns.
C27_ReturnedBytesAreFetchedAndStored ==
    [][\A p \in 1..NumParsers :
          ParReturnsPair(p) =>
              /\ par'[p].url \in DOMAIN par'[p].got
              /\ par'[p].ret[2] = par'[p].got[par'[p].url]
              /\ par'[p].ret[2] = image_cache'[par'[p].ret[1]]]_vars

\* each instance uses only its own memo: an instance takes the memo path
\* only for a URL it has resolved itself, whatever the others hold
OwnMemoOnly ==
    \A p \in 1..NumParsers :
        /\ DOMAIN par[p].memo = DOMAIN par[p].got
        /\ par[p].pc \in {"exists", "read"} => par[p].url \in DOMAIN par[p].got

\* an instance that holds the photo in its memo is about to read the cache
\* file while another instance, which fetched the same bytes, has opened
\* the file for writing and not yet written
ReadDuringWrite ==
    \E p, q \in 1..NumParsers :
        /\ p # q
        /\ par[p].pc = "read" /\ par[p].url = UrlPhoto
        /\ par[p].got[UrlPhoto] = ServedBytes[UrlPhoto]
        /\ par[q].pc = "write" /\ par[q].url = UrlPhoto
        /\ par[q].img_data = ServedBytes[UrlPhoto]
        /\ image_cache[FilenameOf[UrlPhoto]] = EmptyBytes

=============================================================================
